---- MODULE Spec2Model ----
(***************************************************************************)
(* Model of the data-forge preprocessing pipeline.                         *)
(*                                                                         *)
(*   src/app_original.py  calculate_absolute_fields and the class          *)
(*                        CarInsuranceDataRestructurer (batch pipeline)    *)
(*   src/app.py           DataProcessor (single-upload pipeline)           *)
(*                                                                         *)
(* Text.  TLA+ strings are ASCII, so every Chinese character of the source *)
(* is written as one token <pinyin> (homophones get a capital suffix):     *)
(* "<zhou><ci>" is 周次, "<qian><dan><bao><fei>(<wan>)" is 签单保费(万).   *)
(* ASCII characters stand for themselves.  '<' and '>' occur only as token *)
(* delimiters, so substring tests on the encoded text agree with substring *)
(* tests on the original text.                                             *)
(*                                                                         *)
(* Numbers.  A pandas cell is a record [k, n, d, s]:                       *)
(*   k = "num"  the number n/d (d > 0, lowest terms)                       *)
(*   k = "nan"  NaN / empty cell                                           *)
(*   k = "inf"  +inf (n = 1) or -inf (n = -1)                              *)
(*   k = "str"  a non-numeric text s                                       *)
(*   k = "bool" True (n = 1) or False (n = 0)                              *)
(* Floating point arithmetic is modelled by exact rational arithmetic.     *)
(*                                                                         *)
(* Frames.  A DataFrame is [cols, data, n]: the column names in order, the *)
(* columns' values (data[i] has length n) and the length n of the index.   *)
(***************************************************************************)
EXTENDS Integers, Sequences, FiniteSets, TLC

VARIABLES
    pc,                 \* position of the operation under study
    arg,                \* its input
    ret,                \* its result
    csv_files,          \* process_all_files: the files the loop has still to read
    processed_files,    \* CarInsuranceDataRestructurer.processed_files
    failed_files,       \* CarInsuranceDataRestructurer.failed_files
    years_processed,    \* CarInsuranceDataRestructurer.years_processed
    output_dir,         \* the tables written to output_dir, by file name
    error_log,          \* error_handler.error_log
    warning_log,        \* error_handler.warning_log
    report,             \* data_restructure_report.json
    error_report        \* error_report.json

\* the state of a restructurer and of its surroundings
batch == <<csv_files, processed_files, failed_files, years_processed, output_dir,
           error_log, warning_log, report, error_report>>

vars == <<pc, arg, ret, batch>>

----------------------------------------------------------------------------
(* Sequences and text                                                      *)

Range(s) == {s[i] : i \in 1..Len(s)}

\* the element of a set of one element; {F(x) : x \in {e}} names the value of
\* e, so that F uses it without evaluating e again
Only(S) == CHOOSE x \in S : TRUE

SeqMap(Op(_), s) == [i \in 1..Len(s) |-> Op(s[i])]

Reverse(s) == [i \in 1..Len(s) |-> s[Len(s) + 1 - i]]

\* Python `sub in text`
Contains(text, sub) ==
    \E i \in 1..(Len(text) - Len(sub) + 1) : SubSeq(text, i, i + Len(sub) - 1) = sub

----------------------------------------------------------------------------
(* Cells and arithmetic                                                    *)

Abs(x) == IF x < 0 THEN -x ELSE x

RECURSIVE GCD(_, _)
GCD(a, b) == IF b = 0 THEN a ELSE Only({GCD(b, r) : r \in {a % b}})

NaN == [k |-> "nan", n |-> 0, d |-> 1, s |-> ""]
Inf(sign) == [k |-> "inf", n |-> sign, d |-> 1, s |-> ""]
Str(t) == [k |-> "str", n |-> 0, d |-> 1, s |-> t]
Bool(b) == [k |-> "bool", n |-> IF b THEN 1 ELSE 0, d |-> 1, s |-> ""]

\* the number num/den, den # 0, in lowest terms
Num(num, den) ==
    LET sn == IF den < 0 THEN -num ELSE num
        sd == Abs(den)
    IN  Only({[k |-> "num", n |-> sn \div g, d |-> sd \div g, s |-> ""] :
                 g \in {GCD(Abs(sn), sd)}})

IntC(i) == Num(i, 1)

IsNum(c) == c.k = "num"
IsNaN(c) == c.k = "nan"
IsFinite(c) == c.k = "num"

Sign(c) == IF c.n > 0 THEN 1 ELSE IF c.n < 0 THEN -1 ELSE 0

\* float multiplication
Mul(a, b) ==
    IF IsNaN(a) \/ IsNaN(b) THEN NaN
    ELSE IF a.k = "inf" \/ b.k = "inf"
         THEN IF Sign(a) * Sign(b) = 0 THEN NaN ELSE Inf(Sign(a) * Sign(b))
    ELSE LET g1 == GCD(Abs(a.n), b.d)
             g2 == GCD(Abs(b.n), a.d)
         IN  Num((a.n \div g1) * (b.n \div g2), (a.d \div g2) * (b.d \div g1))

\* float division (numpy: x/0 is +-inf, 0/0 is NaN, no exception)
Div(a, b) ==
    IF IsNaN(a) \/ IsNaN(b) THEN NaN
    ELSE IF b.k = "inf" THEN IF a.k = "inf" THEN NaN ELSE IntC(0)
    ELSE IF b.n = 0 THEN IF Sign(a) = 0 THEN NaN ELSE Inf(Sign(a))
    ELSE IF a.k = "inf" THEN Inf(Sign(a) * Sign(b))
    ELSE Mul(a, Num(b.d, b.n))

\* float subtraction of finite numbers
Sub(a, b) ==
    IF IsNaN(a) \/ IsNaN(b) THEN NaN
    ELSE IF a.k = "inf" THEN a
    ELSE IF b.k = "inf" THEN Inf(-b.n)
    ELSE Num(a.n * b.d - b.n * a.d, a.d * b.d)

\* a < b on numbers; any comparison with NaN is False
Less(a, b) ==
    IF IsNaN(a) \/ IsNaN(b) THEN FALSE
    ELSE IF a.k = "inf" THEN a.n < 0 /\ ~(b.k = "inf" /\ b.n < 0)
    ELSE IF b.k = "inf" THEN b.n > 0
    ELSE a.n * b.d < b.n * a.d

LessEq(a, b) == ~IsNaN(a) /\ ~IsNaN(b) /\ ~Less(b, a)

\* numpy round: to the nearest integer, ties to the even one
Round(c) ==
    IF ~IsNum(c) THEN c
    ELSE LET q == c.n \div c.d
             r == c.n - q * c.d
         IN  IF 2 * r < c.d THEN IntC(q)
             ELSE IF 2 * r > c.d THEN IntC(q + 1)
             ELSE IF q % 2 = 0 THEN IntC(q) ELSE IntC(q + 1)

\* float -> int conversion of a finite number: truncation toward zero
Trunc(c) ==
    LET q == c.n \div c.d
    IN  IF c.n < 0 /\ q * c.d # c.n THEN IntC(q + 1) ELSE IntC(q)

----------------------------------------------------------------------------
(* Series (sequences of cells)                                             *)

\* pd.to_numeric(series, errors='coerce'): text that is no number becomes NaN
ToNumericCell(c) ==
    IF c.k = "str" THEN NaN
    ELSE IF c.k = "bool" THEN IntC(c.n)
    ELSE c

to_numeric(series) == SeqMap(ToNumericCell, series)

fillna(series, value) == [i \in 1..Len(series) |-> IF IsNaN(series[i]) THEN value ELSE series[i]]

\* Series.max(): NaN is skipped; NaN when nothing is left
RECURSIVE SeriesMaxFrom(_, _, _)
SeriesMaxFrom(series, i, best) ==
    IF i > Len(series) THEN best
    ELSE IF IsNaN(series[i]) THEN SeriesMaxFrom(series, i + 1, best)
    ELSE IF IsNaN(best) \/ Less(best, series[i]) THEN SeriesMaxFrom(series, i + 1, series[i])
    ELSE SeriesMaxFrom(series, i + 1, best)

SeriesMax(series) == SeriesMaxFrom(series, 1, NaN)

\* Series.astype(int) raises when a value is NaN or infinite
CanCastInt(series) == \A i \in 1..Len(series) : IsFinite(series[i])

AsTypeInt(series) == SeqMap(Trunc, series)

Scale(series, factor) == [i \in 1..Len(series) |-> Mul(series[i], factor)]

Broadcast(value, n) == [i \in 1..n |-> value]

----------------------------------------------------------------------------
(* Frames                                                                  *)

EmptyFrame == [cols |-> <<>>, data |-> <<>>, n |-> 0]

HasCol(df, name) == \E i \in 1..Len(df.cols) : df.cols[i] = name

ColIdx(df, name) == CHOOSE i \in 1..Len(df.cols) :
    /\ df.cols[i] = name
    /\ \A j \in 1..(i - 1) : df.cols[j] # name

\* df[name] for a name that labels exactly one column
Col(df, name) == df.data[ColIdx(df, name)]

\* number of columns labelled name
Count(df, name) == Cardinality({i \in 1..Len(df.cols) : df.cols[i] = name})

\* df[name] = series (series of length df.n): replaces in place, or appends
SetCol(df, name, series) ==
    IF HasCol(df, name)
    THEN [df EXCEPT !.data = [i \in 1..Len(df.cols) |->
                                 IF df.cols[i] = name THEN series ELSE df.data[i]]]
    ELSE [df EXCEPT !.cols = Append(df.cols, name), !.data = Append(df.data, series)]

\* a wrong test for an empty table: only a table of no column is empty
IsEmptyFrame_no_columns(df) == Len(df.cols) = 0

\* df.empty
IsEmptyFrame(df) == df.n = 0 \/ Len(df.cols) = 0

----------------------------------------------------------------------------
(* calculate_absolute_fields (src/app_original.py)                         *)

\* None, as returned by find_field
None == ""

possible_source_fields == [
    \* 跟单保费, 签单保费, signed_premium_10k, 跟单保费(万), 签单保费(万)
    signed_premium |-> <<"<gen><dan><bao><fei>", "<qian><dan><bao><fei>", "signed_premium_10k",
                         "<gen><dan><bao><fei>(<wan>)", "<qian><dan><bao><fei>(<wan>)">>,
    \* 满期净保费, 满期保费, matured_premium_10k, 满期净保费(万), 满期保费(万)
    matured_premium |-> <<"<man><qiB><jing><bao><fei>", "<man><qiB><bao><fei>", "matured_premium_10k",
                          "<man><qiB><jing><bao><fei>(<wan>)", "<man><qiB><bao><fei>(<wan>)">>,
    \* 总赔款, 已报告赔款, reported_claim_payment_10k, 总赔款(万), 赔款(万)
    claim_payment |-> <<"<zong><pei><kuan>", "<yi><baoB><gaoB><pei><kuan>", "reported_claim_payment_10k",
                        "<zong><pei><kuan>(<wan>)", "<pei><kuan>(<wan>)">>,
    \* 案件数, 赔案件数, claim_case_count_raw, 件数
    claim_count |-> <<"<an><jianB><shu>", "<pei><an><jianB><shu>", "claim_case_count_raw", "<jianB><shu>">>,
    \* 保单件数, policy_count, 件数
    policy_count_field |-> <<"<bao><dan><jianB><shu>", "policy_count", "<jianB><shu>">>,
    \* 费用率, expense_ratio, 手续费率
    expense_ratio |-> <<"<fei><yong><lv>", "expense_ratio", "<shou><xu><fei><lv>">>,
    \* 商业险自主系数, commercial_coefficient, 自主系数
    commercial_coeff |-> <<"<shang><ye><xian><zi><zhu><xi><shu>", "commercial_coefficient", "<zi><zhu><xi><shu>">>,
    \* 变动成本率, variable_cost_ratio, 成本率
    variable_cost_ratio |-> <<"<bian><dong><cheng><ben><lv>", "variable_cost_ratio", "<cheng><ben><lv>">>,
    \* 单均保费, average_premium, 平均保费
    average_premium |-> <<"<dan><jun><bao><fei>", "average_premium", "<pingB><jun><bao><fei>">> ]

\* a wrong find_field: the first column of the table that is a candidate
find_field_by_column_order(df, field_list) ==
    IF \E i \in 1..Len(df.cols) : df.cols[i] \in Range(field_list)
    THEN df.cols[CHOOSE i \in 1..Len(df.cols) :
                    /\ df.cols[i] \in Range(field_list)
                    /\ \A j \in 1..(i - 1) : df.cols[j] \notin Range(field_list)]
    ELSE None

\* the first name of field_list that is a column of df, else None
find_field(df, field_list) ==
    IF \E i \in 1..Len(field_list) : HasCol(df, field_list[i])
    THEN field_list[CHOOSE i \in 1..Len(field_list) :
                       /\ HasCol(df, field_list[i])
                       /\ \A j \in 1..(i - 1) : ~HasCol(df, field_list[j])]
    ELSE None

\* the magnitude threshold of is_wan_yuan_unit
WanThreshold == 10000

\* a wrong is_wan_yuan_unit: the magnitude decides even for a marked column
is_wan_yuan_unit_magnitude_only(series, field_name) ==
    LET max_val == SeriesMax(series)
    IN  ~IsNaN(max_val) /\ Less(max_val, IntC(WanThreshold))

\* '(万)' or '（万）' in the name, else the maximum is below 10000
is_wan_yuan_unit(series, field_name) ==
    \/ Contains(field_name, "(<wan>)")
    \/ Contains(field_name, "<LP><wan><RP>")
    \/ LET max_val == SeriesMax(series)
       IN  ~IsNaN(max_val) /\ Less(max_val, IntC(WanThreshold))

\* the yuan values of a monetary source column (the block shared by the
\* signed premium, the matured premium and the reported claim payment)
to_yuan(df, field) ==
    LET series == fillna(to_numeric(Col(df, field)), IntC(0))
    IN  IF is_wan_yuan_unit(series, field) THEN Scale(series, IntC(10000)) ELSE series

\* 1. signed_premium_yuan
signed_premium_yuan(df) ==
    LET signed_field == find_field(df, possible_source_fields.signed_premium)
    IN  IF signed_field # None THEN to_yuan(df, signed_field)
        ELSE Broadcast(IntC(0), df.n)

\* 2. matured_premium_yuan
matured_premium_yuan(df, signed) ==
    LET matured_field == find_field(df, possible_source_fields.matured_premium)
    IN  IF matured_field # None THEN to_yuan(df, matured_field)
        ELSE Scale(signed, Num(95, 100))

\* a wrong guard: every row is divided by its average premium
policy_count_by_average_unguarded(signed, avg_premium) ==
    LET quot == [i \in 1..Len(signed) |-> Round(Div(signed[i], avg_premium[i]))]
    IN  [ok |-> CanCastInt(quot),
         val |-> IF CanCastInt(quot) THEN AsTypeInt(quot) ELSE <<>>]

\* policy_count from the average premium: 0, and on the rows whose average
\* premium is a number > 0 round(signed / average)
policy_count_by_average(signed, avg_premium) ==
    LET valid_avg == [i \in 1..Len(signed) |-> Less(IntC(0), avg_premium[i])]
        valid == {i \in 1..Len(signed) : valid_avg[i]}
        quot == [i \in 1..Len(signed) |->
                    IF valid_avg[i] THEN Round(Div(signed[i], avg_premium[i])) ELSE IntC(0)]
        castable == \A i \in valid : IsFinite(quot[i])
    IN  [ok |-> castable,
         val |-> IF castable THEN AsTypeInt(quot) ELSE <<>>]

\* the assumed average premium when there is no count and no average column
DefaultAveragePremium == 20000

\* 3. policy_count; ok = FALSE when astype(int) raises
policy_count(df, signed) ==
    LET policy_count_field == find_field(df, possible_source_fields.policy_count_field)
        avg_field == find_field(df, possible_source_fields.average_premium)
    IN  IF policy_count_field # None
        THEN LET raw == fillna(to_numeric(Col(df, policy_count_field)), IntC(0))
             IN  [ok |-> CanCastInt(raw), val |-> IF CanCastInt(raw) THEN AsTypeInt(raw) ELSE <<>>]
        ELSE IF avg_field # None
        THEN policy_count_by_average(signed, to_numeric(Col(df, avg_field)))
        ELSE LET est == SeqMap(Round, Scale(signed, Num(1, DefaultAveragePremium)))
             IN  [ok |-> CanCastInt(est), val |-> IF CanCastInt(est) THEN AsTypeInt(est) ELSE <<>>]

\* 4. claim_case_count
claim_case_count(df, policy) ==
    LET claim_count_field == find_field(df, possible_source_fields.claim_count)
    IN  IF claim_count_field # None
        THEN LET raw == fillna(to_numeric(Col(df, claim_count_field)), IntC(0))
             IN  [ok |-> CanCastInt(raw), val |-> IF CanCastInt(raw) THEN AsTypeInt(raw) ELSE <<>>]
        ELSE LET est == SeqMap(Round, Scale(policy, Num(5, 100)))
             IN  [ok |-> CanCastInt(est), val |-> IF CanCastInt(est) THEN AsTypeInt(est) ELSE <<>>]

\* 5. reported_claim_payment_yuan
reported_claim_payment_yuan(df, signed) ==
    LET claim_field == find_field(df, possible_source_fields.claim_payment)
    IN  IF claim_field # None THEN to_yuan(df, claim_field)
        ELSE Scale(signed, Num(6, 10))

\* 6. expense_amount_yuan
expense_amount_yuan(df, signed) ==
    LET expense_field == find_field(df, possible_source_fields.expense_ratio)
    IN  IF expense_field # None
        THEN LET raw == fillna(to_numeric(Col(df, expense_field)), IntC(0))
                 expense_ratio == IF Less(IntC(1), SeriesMax(raw))
                                  THEN Scale(raw, Num(1, 100)) ELSE raw
             IN  [i \in 1..Len(signed) |-> Mul(signed[i], expense_ratio[i])]
        ELSE Scale(signed, Num(15, 100))

\* the signed premium, divided by the coefficient on the rows whose
\* coefficient is a number > 0
commercial_premium(signed, coeff) ==
    [i \in 1..Len(signed) |->
        IF Less(IntC(0), coeff[i]) THEN Div(signed[i], coeff[i]) ELSE signed[i]]

\* 7. commercial_premium_before_discount_yuan
commercial_premium_before_discount_yuan(df, signed) ==
    LET coeff_field == find_field(df, possible_source_fields.commercial_coeff)
    IN  IF coeff_field # None
        THEN commercial_premium(signed, to_numeric(Col(df, coeff_field)))
        ELSE signed

\* a wrong fallback: the cost share 0.6 in place of the contribution rate 0.4
marginal_contribution_cost_share(df, matured) == Scale(matured, Num(6, 10))

\* the variable cost ratio (percent) assumed for an empty cell
DefaultVariableCostRatio == 60

\* 8. marginal_contribution_amount_yuan
marginal_contribution_amount_yuan(df, matured) ==
    LET var_cost_field == find_field(df, possible_source_fields.variable_cost_ratio)
    IN  IF var_cost_field # None
        THEN LET raw == fillna(to_numeric(Col(df, var_cost_field)), IntC(DefaultVariableCostRatio))
                 variable_cost_ratio == IF LessEq(SeriesMax(raw), IntC(1))
                                        THEN Scale(raw, IntC(100)) ELSE raw
                 rate == [i \in 1..Len(raw) |->
                             Mul(Sub(IntC(100), variable_cost_ratio[i]), Num(1, 100))]
             IN  [i \in 1..Len(matured) |-> Mul(matured[i], rate[i])]
        ELSE Scale(matured, Num(4, 10))

\* the 8 derived fields, in the order the code computes them
AbsoluteFields == <<"signed_premium_yuan", "matured_premium_yuan", "policy_count",
                    "claim_case_count", "reported_claim_payment_yuan", "expense_amount_yuan",
                    "commercial_premium_before_discount_yuan",
                    "marginal_contribution_amount_yuan">>

\* the names of a list that are in no other list, in order
RECURSIVE NotIn(_, _)
NotIn(names, others) ==
    IF Len(names) = 0 THEN <<>>
    ELSE (IF Head(names) \in Range(others) THEN <<>> ELSE <<Head(names)>>)
         \o NotIn(Tail(names), others)

IndexOf(names, name) == CHOOSE k \in 1..Len(names) : names[k] = name

\* df[names[k]] = series[k] for each of the distinct names, in order: a column
\* of that name is replaced where it stands, a new column comes last
SetCols(df, names, series) ==
    LET new == NotIn(names, df.cols)
    IN  [df EXCEPT
            !.cols = df.cols \o new,
            !.data = [i \in 1..Len(df.cols) |->
                         IF df.cols[i] \in Range(names)
                         THEN series[IndexOf(names, df.cols[i])] ELSE df.data[i]]
                     \o [k \in 1..Len(new) |-> series[IndexOf(names, new[k])]]]

\* [ok, err, df]: the copy of df with the 8 derived columns set, or the
\* exception astype(int) raises
calculate_absolute_fields(df) ==
    LET signed == signed_premium_yuan(df)
        matured == matured_premium_yuan(df, signed)
        policy == policy_count(df, signed)
        claims == IF policy.ok THEN claim_case_count(df, policy.val) ELSE [ok |-> FALSE, val |-> <<>>]
    IN  IF ~policy.ok \/ ~claims.ok
        THEN [ok |-> FALSE, err |-> "IntCastingNaNError", df |-> EmptyFrame]
        ELSE [ok |-> TRUE, err |-> "",
              df |-> Only({SetCols(df, AbsoluteFields, series) :
                             series \in {<<signed, matured, policy.val, claims.val,
                                           reported_claim_payment_yuan(df, signed),
                                           expense_amount_yuan(df, signed),
                                           commercial_premium_before_discount_yuan(df, signed),
                                           marginal_contribution_amount_yuan(df, matured)>>}})]

----------------------------------------------------------------------------
(* CarInsuranceDataRestructurer.finalize_output_fields                     *)

\* the 25 fields of the output, in order
required_fields == <<
    "snapshot_date", "policy_start_year", "business_type_category", "chengdu_branch",
    "third_level_organization", "customer_category_3", "insurance_type", "is_new_energy_vehicle",
    "coverage_type", "is_transferred_vehicle", "renewal_status", "vehicle_insurance_grade",
    "highway_risk_grade", "large_truck_score", "small_truck_score", "terminal_source",
    "week_number",
    "signed_premium_yuan", "matured_premium_yuan", "policy_count", "claim_case_count",
    "reported_claim_payment_yuan", "expense_amount_yuan", "commercial_premium_before_discount_yuan",
    "marginal_contribution_amount_yuan" >>

\* the scalar a missing field is set to
default_value(field) ==
    IF field \in {"policy_count", "claim_case_count"} THEN IntC(0)
    ELSE IF field \in {"is_new_energy_vehicle", "is_transferred_vehicle"} THEN Bool(FALSE)
    ELSE IF Contains(field, "yuan") THEN IntC(0)
    ELSE Str("")

\* df[field] = scalar: the scalar on every row of the frame's index
SetScalar(df, field, value) == SetCol(df, field, Broadcast(value, df.n))

----------------------------------------------------------------------------
(* The rows of an emitted table (checked under SpecStages)                 *)

\* a wrong index: result_df has rows only if the first field is a column
IndexLen_of_first_field(df, i) ==
    IF HasCol(df, required_fields[1]) THEN df.n ELSE 0

\* the number of rows of result_df after the first i fields: result_df starts
\* with an empty index and takes the index of the first column copied from df
IndexLen(df, i) ==
    IF \E j \in 1..i : HasCol(df, required_fields[j]) THEN df.n ELSE 0

\* a wrong loop body: a missing field is left out
finalize_field_skip_missing(df, i) ==
    IF HasCol(df, required_fields[i])
    THEN <<[field |-> required_fields[i], series |-> Col(df, required_fields[i])]>>
    ELSE <<>>

\* the body of the loop over required_fields, for the i-th field: the column
\* assigned to result_df; a scalar is spread over the index result_df has then
finalize_field(df, i) ==
    IF HasCol(df, required_fields[i])
    THEN <<[field |-> required_fields[i], series |-> Col(df, required_fields[i])]>>
    ELSE <<[field |-> required_fields[i],
            series |-> Broadcast(default_value(required_fields[i]), IndexLen(df, i - 1))]>>

\* the columns assigned by the loop, in the order of the assignments
RECURSIVE FinalizeFrom(_, _)
FinalizeFrom(df, i) ==
    IF i > Len(required_fields) THEN <<>>
    ELSE finalize_field(df, i) \o FinalizeFrom(df, i + 1)

\* a column assigned before result_df had its index holds NaN over the index
Reindexed(series, n) == IF Len(series) = n THEN series ELSE Broadcast(NaN, n)

\* [ok, err, df]; df[field] is a frame, not a series, when two columns are
\* labelled field, and assigning it to one column raises ValueError
finalize_output_fields(df) ==
    IF \E i \in 1..Len(required_fields) : Count(df, required_fields[i]) > 1
    THEN [ok |-> FALSE, err |-> "ValueError", df |-> EmptyFrame]
    ELSE LET assigned == FinalizeFrom(df, 1)
             n == IndexLen(df, Len(required_fields))
         IN  [ok |-> TRUE, err |-> "",
              df |-> [cols |-> [k \in 1..Len(assigned) |-> assigned[k].field],
                      data |-> [k \in 1..Len(assigned) |-> Reindexed(assigned[k].series, n)],
                      n |-> n]]

----------------------------------------------------------------------------
(* Text: characters, digits, formatting                                    *)

Digits == <<"0", "1", "2", "3", "4", "5", "6", "7", "8", "9">>

IsDigit(c) == \E i \in 1..10 : Digits[i] = c

DigitValue(c) == (CHOOSE i \in 1..10 : Digits[i] = c) - 1

\* int(text) for a text of digits
RECURSIVE ParseDigits(_, _)
ParseDigits(text, acc) ==
    IF Len(text) = 0 THEN acc
    ELSE ParseDigits(Tail(text), 10 * acc + DigitValue(Head(text)))

\* the length of the run of digits that starts at position i
RECURSIVE DigitRun(_, _)
DigitRun(text, i) ==
    IF i <= Len(text) /\ IsDigit(SubSeq(text, i, i)) THEN 1 + DigitRun(text, i + 1) ELSE 0

\* the end of the character that starts at position i: a token <...> is one
\* character (a Chinese character or a full-width bracket)
RECURSIVE TokenEnd(_, _)
TokenEnd(text, i) ==
    IF SubSeq(text, i, i) = ">" THEN i ELSE TokenEnd(text, i + 1)

CharEnd(text, i) == IF SubSeq(text, i, i) = "<" THEN TokenEnd(text, i) ELSE i

\* the characters of a text, in order
RECURSIVE Chars(_, _)
Chars(text, i) ==
    IF i > Len(text) THEN <<>>
    ELSE <<SubSeq(text, i, CharEnd(text, i))>> \o Chars(text, CharEnd(text, i) + 1)

RECURSIVE Join(_)
Join(chars) == IF Len(chars) = 0 THEN "" ELSE Head(chars) \o Join(Tail(chars))

\* the full-width brackets （ and ）: tokens that are no Chinese character
FullWidthBrackets == {"<LP>", "<RP>"}

\* a character in the range 一-鿿
IsChineseChar(c) == Len(c) > 1 /\ c \notin FullWidthBrackets

\* text[i:j+1], short or empty at the end of the text
Slice(text, i, j) ==
    IF i > Len(text) THEN "" ELSE SubSeq(text, i, IF j > Len(text) THEN Len(text) ELSE j)

\* format(n, '02d')
Format02d(n) ==
    IF n >= 0 /\ n < 10 THEN "0" \o ToString(n) ELSE ToString(n)

----------------------------------------------------------------------------
(* CarInsuranceDataRestructurer: column mapping                            *)

\* FIELD_MAPPING, in the order of the dict
FIELD_MAPPING == <<
    <<"<shua><xin><shi><jian>", "snapshot_date">>,                  \* 刷新时间
    <<"<bao><xian><qi><qiB>", "policy_start_year">>,                \* 保险起期
    <<"<ye><wu><lei><xing><fen><lei>", "business_type_category">>,  \* 业务类型分类
    <<"<cheng><du><zhong><zhi>", "chengdu_branch">>,                \* 成都中支
    <<"<san><ji><jiB><gou>", "third_level_organization">>,          \* 三级机构
    <<"<ke><hu><lei><bie>3", "customer_category_3">>,               \* 客户类别3
    <<"<xian><zhongB><lei>", "insurance_type">>,                    \* 险种类
    <<"<jiao><san>/<zhu><quan>", "coverage_type">>,                 \* 交三/主全
    <<"<xu><bao><qing><kuang>", "renewal_status">>,                 \* 续保情况
    <<"<zhongC><duan><lai><yuan>", "terminal_source">>,             \* 终端来源
    <<"<che><xian><fen><deng><ji>", "vehicle_insurance_grade">>,    \* 车险分等级
    <<"<gao><su><feng><xian><deng><ji>", "highway_risk_grade">>,    \* 高速风险等级
    <<"<da><huo><che><ping><fen>", "large_truck_score">>,           \* 大货车评分
    <<"<xiao><huo><che><ping><fen>", "small_truck_score">>,         \* 小货车评分
    <<"<shiB><fou><xin><neng><yuan><che>1", "is_new_energy_vehicle">>,  \* 是否新能源车1
    <<"<shiB><fou><guo><hu><che>", "is_transferred_vehicle">>,      \* 是否过户车
    <<"<zhou><ci>", "week_number">> >>                              \* 周次

\* BOOLEAN_VALUE_MAP.get(value, False) after the NaN test and strip:
\* 是, Y, true, 1 are True; everything else is False
standardize_boolean_value(c) ==
    IF c.k = "nan" THEN Bool(FALSE)
    ELSE IF c.k = "str" THEN Bool(c.s \in {"<shiB>", "Y", "true", "1"})
    ELSE IF c.k = "bool" THEN c
    ELSE Bool(c.k = "num" /\ c.n = 1 /\ c.d = 1)

_contains_chinese(text) == \E c \in Range(Chars(text, 1)) : IsChineseChar(c)

\* translation_map, in the order of the dict
translation_map == <<
    <<"<bao><fei>", "premium">>,      \* 保费
    <<"<jianB><shu>", "count">>,      \* 件数
    <<"<jin><e>", "amount">>,         \* 金额
    <<"<shu><liang>", "quantity">>,   \* 数量
    <<"<lv>", "ratio">>,              \* 率
    <<"<shi><jian>", "time">>,        \* 时间
    <<"<ri><qiB>", "date">>,          \* 日期
    <<"<lei><xing>", "type">>,        \* 类型
    <<"<zhuang><tai>", "status">> >>  \* 状态

\* text.replace(old, new)
RECURSIVE Replace(_, _, _)
Replace(text, old, new) ==
    IF Len(text) < Len(old) THEN text
    ELSE IF SubSeq(text, 1, Len(old)) = old
         THEN new \o Replace(SubSeq(text, Len(old) + 1, Len(text)), old, new)
    ELSE LET e == CharEnd(text, 1)
         IN  SubSeq(text, 1, e) \o Replace(SubSeq(text, e + 1, Len(text)), old, new)

RECURSIVE Translate(_, _)
Translate(text, i) ==
    IF i > Len(translation_map) THEN text
    ELSE Translate(Replace(text, translation_map[i][1], translation_map[i][2]), i + 1)

LowerCase == "abcdefghijklmnopqrstuvwxyz"
UpperCase == "ABCDEFGHIJKLMNOPQRSTUVWXYZ"

IsUpper(c) == \E i \in 1..26 : SubSeq(UpperCase, i, i) = c
IsLower(c) == \E i \in 1..26 : SubSeq(LowerCase, i, i) = c

Lower(c) ==
    IF IsUpper(c)
    THEN LET i == CHOOSE j \in 1..26 : SubSeq(UpperCase, j, j) = c IN SubSeq(LowerCase, i, i)
    ELSE c

\* re.sub(r'[^a-zA-Z0-9一-鿿]', '_', c).lower() on one character
Sanitize(c) ==
    IF IsChineseChar(c) THEN c
    ELSE IF Len(c) = 1 /\ (IsUpper(c) \/ IsLower(c) \/ IsDigit(c)) THEN Lower(c)
    ELSE "_"

\* chars.strip('_')
RECURSIVE StripLeft(_)
StripLeft(chars) ==
    IF Len(chars) > 0 /\ Head(chars) = "_" THEN StripLeft(Tail(chars)) ELSE chars

Strip(chars) == Reverse(StripLeft(Reverse(StripLeft(chars))))

_generate_english_name(chinese_name) ==
    LET english_name == Strip(SeqMap(Sanitize, Chars(Translate(chinese_name, 1), 1)))
    IN  IF \E c \in Range(english_name) : IsChineseChar(c)
        THEN "field_" \o ToString(Len(english_name))
        ELSE Join(english_name)

\* the first of english_name_1, english_name_2, ... that is not used
RECURSIVE NextFreeName(_, _, _)
NextFreeName(english_name, used, counter) ==
    IF (english_name \o "_" \o ToString(counter)) \in used
    THEN NextFreeName(english_name, used, counter + 1)
    ELSE english_name \o "_" \o ToString(counter)

\* the first loop: [map, used] after the entries i.. of FIELD_MAPPING; map is
\* the set of pairs <<chinese name, english name>>
RECURSIVE BuildRenameMap(_, _, _, _)
BuildRenameMap(df, i, map, used) ==
    IF i > Len(FIELD_MAPPING) THEN [map |-> map, used |-> used]
    ELSE LET chinese_name == FIELD_MAPPING[i][1]
             mapped == FIELD_MAPPING[i][2]
             english_name == IF mapped \in used THEN NextFreeName(mapped, used, 1) ELSE mapped
         IN  IF HasCol(df, chinese_name)
             THEN BuildRenameMap(df, i + 1, map \cup {<<chinese_name, english_name>>},
                                 used \cup {english_name})
             ELSE BuildRenameMap(df, i + 1, map, used)

\* df.rename(columns=map)
Rename(df, map) ==
    [df EXCEPT !.cols = [i \in 1..Len(df.cols) |->
        IF \E m \in map : m[1] = df.cols[i]
        THEN (CHOOSE m \in map : m[1] = df.cols[i])[2]
        ELSE df.cols[i]]]

\* the second loop, over the columns that still contain Chinese
RECURSIVE RenameRemaining(_, _, _, _)
RenameRemaining(df, remaining, i, used) ==
    IF i > Len(remaining) THEN df
    ELSE LET english_name == _generate_english_name(remaining[i])
         IN  IF english_name \notin used
             THEN RenameRemaining(Rename(df, {<<remaining[i], english_name>>}), remaining,
                                  i + 1, used \cup {english_name})
             ELSE RenameRemaining(df, remaining, i + 1, used)

\* [col for col in df.columns if self._contains_chinese(col)]
RECURSIVE ChineseColumns(_)
ChineseColumns(cols) ==
    IF Len(cols) = 0 THEN <<>>
    ELSE IF _contains_chinese(Head(cols)) THEN <<Head(cols)>> \o ChineseColumns(Tail(cols))
    ELSE ChineseColumns(Tail(cols))

boolean_fields == <<"is_new_energy_vehicle", "is_transferred_vehicle">>

\* df[field] = df[field].apply(standardize_boolean_value) for the boolean fields
RECURSIVE StandardizeBooleans(_, _)
StandardizeBooleans(df, i) ==
    IF i > Len(boolean_fields) THEN df
    ELSE IF HasCol(df, boolean_fields[i])
         THEN StandardizeBooleans(
                SetCol(df, boolean_fields[i],
                       SeqMap(standardize_boolean_value, Col(df, boolean_fields[i]))), i + 1)
    ELSE StandardizeBooleans(df, i + 1)

\* [ok, err, df]; when two columns are labelled with one boolean field,
\* df[field] is a frame, apply hands whole columns to
\* standardize_boolean_value, and `if pd.isna(value)` raises ValueError
standardize_field_names(df) ==
    LET first == BuildRenameMap(df, 1, {}, {})
        renamed == Rename(df, first.map)
        remaining == ChineseColumns(renamed.cols)
        df_renamed == RenameRemaining(renamed, remaining, 1, first.used)
    IN  IF \E i \in 1..Len(boolean_fields) : Count(df_renamed, boolean_fields[i]) > 1
        THEN [ok |-> FALSE, err |-> "ValueError", df |-> EmptyFrame]
        ELSE [ok |-> TRUE, err |-> "", df |-> StandardizeBooleans(df_renamed, 1)]

----------------------------------------------------------------------------
(* CarInsuranceDataRestructurer: quality check, year and week, compliance  *)

\* a column read from a file holds text (dtype object) when a cell is text
IsObjectColumn(series) == \E i \in 1..Len(series) : series[i].k = "str"

CountWhere(series, Test(_)) == Cardinality({i \in 1..Len(series) : Test(series[i])})

\* the two fields of the completeness check: 保险起期, 周次
quality_required_fields == <<"<bao><xian><qi><qiB>", "<zhou><ci>">>

\* the fields of the type check: 签单保费(万), 满期保费(万), 赔案件数
quality_numeric_fields == <<"<qian><dan><bao><fei>(<wan>)", "<man><qiB><bao><fei>(<wan>)",
                            "<pei><an><jianB><shu>">>

MinStartYear == 2000
MaxStartYear == 2030

\* 缺少必需字段: {field}
MissingFieldIssue(field) == "<que><shao><bi><xu><zi><duan>: " \o field

\* 字段 {field} 存在 {n} 个非数值记录
NonNumericIssue(field, n) ==
    "<zi><duan> " \o field \o " <cun><zai> " \o ToString(n) \o " <ge><fei><shu><zhi><ji><lu>"

\* 存在 {n} 个不合理的保险起期值
InvalidYearIssue(n) ==
    "<cun><zai> " \o ToString(n) \o " <ge><bu><he><li><de><bao><xian><qi><qiB><zhi>"

RECURSIVE MissingFieldIssues(_, _)
MissingFieldIssues(df, i) ==
    IF i > Len(quality_required_fields) THEN <<>>
    ELSE (IF HasCol(df, quality_required_fields[i]) THEN <<>>
          ELSE <<MissingFieldIssue(quality_required_fields[i])>>)
         \o MissingFieldIssues(df, i + 1)

RECURSIVE NonNumericIssues(_, _)
NonNumericIssues(df, i) ==
    IF i > Len(quality_numeric_fields) THEN <<>>
    ELSE LET field == quality_numeric_fields[i]
             non_numeric == IF HasCol(df, field)
                            THEN CountWhere(to_numeric(Col(df, field)), IsNaN) ELSE 0
         IN  (IF non_numeric > 0 THEN <<NonNumericIssue(field, non_numeric)>> ELSE <<>>)
             \o NonNumericIssues(df, i + 1)

InvalidYear(c) == Less(ToNumericCell(c), IntC(MinStartYear)) \/ Less(IntC(MaxStartYear), ToNumericCell(c))

InvalidYearIssues(df) ==
    LET invalid_years == IF HasCol(df, quality_required_fields[1])
                         THEN CountWhere(Col(df, quality_required_fields[1]), InvalidYear) ELSE 0
    IN  IF invalid_years > 0 THEN <<InvalidYearIssue(invalid_years)>> ELSE <<>>

\* [ok, err, issues]; comparing a column of text with 2000 raises TypeError
validate_data_quality(df) ==
    IF HasCol(df, quality_required_fields[1]) /\ IsObjectColumn(Col(df, quality_required_fields[1]))
    THEN [ok |-> FALSE, err |-> "TypeError", issues |-> <<>>]
    ELSE [ok |-> TRUE, err |-> "",
          issues |-> MissingFieldIssues(df, 1) \o NonNumericIssues(df, 1) \o InvalidYearIssues(df)]

\* series.dropna()
RECURSIVE dropna(_)
dropna(series) ==
    IF Len(series) = 0 THEN <<>>
    ELSE IF IsNaN(Head(series)) THEN dropna(Tail(series))
    ELSE <<Head(series)>> \o dropna(Tail(series))

\* series.mode().iloc[0]: the most frequent value, the smallest one on a tie
Mode(series) ==
    LET occurrences(v) == Cardinality({i \in 1..Len(series) : series[i] = v})
    IN  CHOOSE v \in Range(series) : \A w \in Range(series) :
            \/ occurrences(v) > occurrences(w)
            \/ occurrences(v) = occurrences(w) /\ LessEq(v, w)

\* re.search(r'(\d{4})', filename): 0 stands for no match
year_match(filename) ==
    LET starts == {i \in 1..Len(filename) : DigitRun(filename, i) >= 4}
    IN  IF starts = {} THEN 0 ELSE CHOOSE i \in starts : \A j \in starts : i <= j

\* a wrong pattern of the week: the first digits of the name, whatever stands
\* around them
week_match_any_digits(filename) ==
    LET starts == {i \in 1..Len(filename) : DigitRun(filename, i) >= 1}
    IN  IF starts = {} THEN 0 ELSE CHOOSE i \in starts : \A j \in starts : i <= j

\* re.search(r'第(\d+)周', filename): the start of the digits, 0 for no match
week_match(filename) ==
    LET starts == {i \in 1..Len(filename) :
                      /\ Slice(filename, i, i + 3) = "<di>"
                      /\ DigitRun(filename, i + 4) >= 1
                      /\ LET e == i + 4 + DigitRun(filename, i + 4)
                         IN  Slice(filename, e, e + 5) = "<zhou>"}
    IN  IF starts = {} THEN 0 ELSE 4 + CHOOSE i \in starts : \A j \in starts : i <= j

\* the value a column gives for the year or the week: [found, ok, err, value]
FromColumn(df, field) ==
    IF ~HasCol(df, field) THEN [found |-> FALSE, ok |-> TRUE, err |-> "", value |-> 0]
    ELSE IF Count(df, field) > 1
         THEN [found |-> FALSE, ok |-> FALSE, err |-> "TypeError", value |-> 0]
    ELSE LET series == dropna(to_numeric(Col(df, field)))
         IN  IF Len(series) = 0 THEN [found |-> FALSE, ok |-> TRUE, err |-> "", value |-> 0]
             ELSE IF ~IsFinite(Mode(series))
                  THEN [found |-> FALSE, ok |-> FALSE, err |-> "OverflowError", value |-> 0]
             ELSE [found |-> TRUE, ok |-> TRUE, err |-> "", value |-> Trunc(Mode(series)).n]

\* a wrong order of the sources of the year: the file name before the column
extract_year_and_week_filename_first(df, filename, now) ==
    LET from_year == FromColumn(df, "policy_start_year")
        from_week == FromColumn(df, "week_number")
        y == year_match(filename)
        w == week_match(filename)
        year == IF y > 0 THEN ParseDigits(SubSeq(filename, y, y + 3), 0)
                ELSE IF from_year.found THEN from_year.value
                ELSE now.year
        week == IF from_week.found THEN from_week.value
                ELSE IF w > 0 THEN ParseDigits(SubSeq(filename, w, w + DigitRun(filename, w) - 1), 0)
                ELSE now.week
    IN  IF ~from_year.ok THEN [ok |-> FALSE, err |-> from_year.err, year |-> 0, week |-> 0]
        ELSE IF ~from_week.ok THEN [ok |-> FALSE, err |-> from_week.err, year |-> year, week |-> 0]
        ELSE [ok |-> TRUE, err |-> "", year |-> year, week |-> week]

\* [ok, err, year, week]; now is the reading of the clock, [year, week]
extract_year_and_week(df, filename, now) ==
    LET from_year == FromColumn(df, "policy_start_year")
        from_week == FromColumn(df, "week_number")
        y == year_match(filename)
        w == week_match(filename)
        year == IF from_year.found THEN from_year.value
                ELSE IF y > 0 THEN ParseDigits(SubSeq(filename, y, y + 3), 0)
                ELSE now.year
        week == IF from_week.found THEN from_week.value
                ELSE IF w > 0 THEN ParseDigits(SubSeq(filename, w, w + DigitRun(filename, w) - 1), 0)
                ELSE now.week
    IN  IF ~from_year.ok THEN [ok |-> FALSE, err |-> from_year.err, year |-> 0, week |-> 0]
        ELSE IF ~from_week.ok THEN [ok |-> FALSE, err |-> from_week.err, year |-> year, week |-> 0]
        ELSE [ok |-> TRUE, err |-> "", year |-> year, week |-> week]

\* {year}保单第{week:02d}周变动成本明细表.csv
output_filename(year, week) ==
    ToString(year) \o "<bao><dan><di>" \o Format02d(week)
        \o "<zhou><bian><dong><cheng><ben><ming><xiB><biao>.csv"

expected_field_count == 25

RECURSIVE JoinComma(_)
JoinComma(names) ==
    IF Len(names) = 0 THEN ""
    ELSE IF Len(names) = 1 THEN Head(names)
    ELSE Head(names) \o ", " \o JoinComma(Tail(names))

\* a validator that does not look at the order
OrderIssues_unchecked(actual_fields, i) == <<>>

\* 字段顺序错误: 位置{i+1}期望'{expected_field}'，实际'{actual_fields[i]}'
RECURSIVE OrderIssues(_, _)
OrderIssues(actual_fields, i) ==
    IF i > Len(required_fields) THEN <<>>
    ELSE (IF i <= Len(actual_fields) /\ actual_fields[i] # required_fields[i]
          THEN <<"<zi><duan><shun><xu><cuo><wu>: <wei><zhi>" \o ToString(i) \o "<qiB><wang>'"
                 \o required_fields[i] \o "', <shiC><ji>'" \o actual_fields[i] \o "'">>
          ELSE <<>>)
         \o OrderIssues(actual_fields, i + 1)

\* the issues; the table is compliant when there is none
validate_output_compliance(df) ==
    LET missing_fields == NotIn(required_fields, df.cols)
        extra_fields == NotIn(df.cols, required_fields)
    IN  (IF Len(df.cols) # expected_field_count
         THEN <<"<zi><duan><shu><liang><bu><fu>: <qiB><wang>" \o ToString(expected_field_count)
                \o "<ge>, <shiC><ji>" \o ToString(Len(df.cols)) \o "<ge>">>
         ELSE <<>>)
        \o (IF Len(missing_fields) > 0
            THEN <<MissingFieldIssue(JoinComma(missing_fields))>> ELSE <<>>)
        \o (IF Len(extra_fields) > 0
            THEN <<"<bao><han><e><wai><zi><duan>: " \o JoinComma(extra_fields)>> ELSE <<>>)
        \o OrderIssues(df.cols, 1)

----------------------------------------------------------------------------
(* CarInsuranceDataRestructurer.process_all_files: one file                *)

\* 文件为空
EmptyFileError == "<wen><jianB><wei><kong>"

\* 处理失败: {e}; the message of an exception is modelled by its class name
FailureMessage(err) == "<chu><li><shi><bai>: " \o err

\* the outcome of an iteration that ends in the empty-file branch or in the
\* except clause; year_added tells whether years_processed.add(year) was run
Failure(operation, error_type, message, error, issues, year_added, year) ==
    [ok |-> FALSE, operation |-> operation, error_type |-> error_type, message |-> message,
     error |-> error, quality_issues |-> issues, year_added |-> year_added, year |-> year,
     week |-> 0, output_filename |-> "", df_final |-> EmptyFrame]

\* 文件处理
Raised(err, issues, year_added, year) ==
    Failure("<wen><jianB><chu><li>", err, err, FailureMessage(err), issues, year_added, year)

\* a validator that is a gate: a table that is not compliant raises
after_finalization_gated(issues, yw, final) ==
    IF ~final.ok THEN Raised(final.err, issues, TRUE, yw.year)
    ELSE IF Len(validate_output_compliance(final.df)) > 0
         THEN Raised("ValueError", issues, TRUE, yw.year)
    ELSE [ok |-> TRUE, operation |-> "", error_type |-> "", message |-> "", error |-> "",
          quality_issues |-> issues,
          year_added |-> TRUE, year |-> yw.year, week |-> yw.week,
          output_filename |-> output_filename(yw.year, yw.week),
          df_final |-> final.df]

\* the end of the try block, once finalize_output_fields has returned
after_finalization(issues, yw, final) ==
    IF ~final.ok THEN Raised(final.err, issues, TRUE, yw.year)
    ELSE [ok |-> TRUE, operation |-> "", error_type |-> "", message |-> "", error |-> "",
          quality_issues |-> issues \o validate_output_compliance(final.df),
          year_added |-> TRUE, year |-> yw.year, week |-> yw.week,
          output_filename |-> output_filename(yw.year, yw.week),
          df_final |-> final.df]

\* years_processed.add(year), the week_number column, finalize_output_fields
after_extraction(issues, df_standardized, yw) ==
    IF ~yw.ok THEN Raised(yw.err, issues, FALSE, 0)
    ELSE Only({after_finalization(issues, yw, final) :
                 final \in {finalize_output_fields(df) :
                              df \in {IF HasCol(df_standardized, "week_number")
                                      THEN df_standardized
                                      ELSE SetScalar(df_standardized, "week_number",
                                                     IntC(yw.week))}}})

after_standardization(csv_file, now, issues, standardized) ==
    IF ~standardized.ok THEN Raised(standardized.err, issues, FALSE, 0)
    ELSE Only({after_extraction(issues, standardized.df, yw) :
                 yw \in {extract_year_and_week(standardized.df, csv_file.name, now)}})

after_calculation(csv_file, now, issues, df_with_calculations) ==
    IF ~df_with_calculations.ok THEN Raised(df_with_calculations.err, issues, FALSE, 0)
    ELSE Only({after_standardization(csv_file, now, issues, standardized) :
                 standardized \in {standardize_field_names(df_with_calculations.df)}})

after_quality_check(csv_file, now, quality) ==
    IF ~quality.ok THEN Raised(quality.err, <<>>, FALSE, 0)
    ELSE Only({after_calculation(csv_file, now, quality.issues, df_with_calculations) :
                 df_with_calculations \in {calculate_absolute_fields(csv_file.df)}})

\* the body of the loop of process_all_files for one file, each step on the
\* result of the step before; now is the reading of the clock. A file is
\* [name, readable, df]: a file of no bytes is not readable, and read_csv
\* raises EmptyDataError
process_file(csv_file, now) ==
    IF ~csv_file.readable THEN Raised("EmptyDataError", <<>>, FALSE, 0)
    ELSE IF IsEmptyFrame(csv_file.df)
         \* 文件读取
         THEN Failure("<wen><jianB><du><qu>", "str", EmptyFileError, EmptyFileError,
                      <<>>, FALSE, 0)
    ELSE Only({after_quality_check(csv_file, now, quality) :
                 quality \in {validate_data_quality(csv_file.df)}})

\* a wrong loop: a failure ends it
next_file_until_failure(files, outcome) == IF outcome.ok THEN Tail(files) ELSE <<>>

\* the loop goes on with the next file after a success, after the continue
\* of the empty-file branch and after the except clause
next_file(files, outcome) == Tail(files)

\* sorted(list(numbers))
RECURSIVE Sorted(_)
Sorted(numbers) ==
    IF numbers = {} THEN <<>>
    ELSE LET least == CHOOSE x \in numbers : \A y \in numbers : x <= y
         IN  <<least>> \o Sorted(numbers \ {least})

RECURSIVE TotalRecords(_, _)
TotalRecords(files, year) ==
    IF Len(files) = 0 THEN 0
    ELSE (IF Head(files).year = year THEN Head(files).records_count ELSE 0)
         + TotalRecords(Tail(files), year)

_calculate_year_statistics(files) ==
    LET of_year(year) == {i \in 1..Len(files) : files[i].year = year}
    IN  [year \in {files[i].year : i \in 1..Len(files)} |->
            [files |-> Cardinality(of_year(year)),
             total_records |-> TotalRecords(files, year),
             weeks |-> Sorted({files[i].week : i \in of_year(year)})]]

processing_summary(processed, failed, years) ==
    [total_files |-> Len(processed) + Len(failed),
     successful |-> Len(processed),
     failed |-> Len(failed),
     years_processed |-> Sorted(years)]

\* the content of data_restructure_report.json, but for its time stamp
_generate_processing_report(processed, failed, years) ==
    [processing_summary |-> processing_summary(processed, failed, years),
     processed_files |-> processed,
     failed_files |-> failed,
     year_statistics |-> _calculate_year_statistics(processed)]

LastFive(log) == IF Len(log) > 5 THEN SubSeq(log, Len(log) - 4, Len(log)) ELSE log

\* the content of error_report.json, but for its time stamp
save_error_report(errors, warnings) ==
    [summary |-> [total_errors |-> Len(errors),
                  total_warnings |-> Len(warnings),
                  error_types |-> {errors[i].error_type : i \in 1..Len(errors)},
                  recent_errors |-> LastFive(errors),
                  recent_warnings |-> LastFive(warnings)],
     all_errors |-> errors,
     all_warnings |-> warnings]

\* a restructurer just constructed, in a process that has logged nothing and
\* an output directory that holds no file
Fresh ==
    /\ processed_files = <<>>
    /\ failed_files = <<>>
    /\ years_processed = {}
    /\ output_dir = <<>>
    /\ error_log = <<>>
    /\ warning_log = <<>>
    /\ report = <<>>
    /\ error_report = <<>>

----------------------------------------------------------------------------
(* DataStructureManager: the weeks of the files of the output directory    *)

\* output_dir.glob("*保单第*周变动成本明细表.csv"): the names of that form
IsOutputName(name) ==
    LET suffix == "<zhou><bian><dong><cheng><ben><ming><xiB><biao>.csv"
    IN  \E i \in 1..Len(name) :
            /\ Slice(name, i, i + 13) = "<bao><dan><di>"
            /\ Len(name) - Len(suffix) + 1 >= i + 14
            /\ Slice(name, Len(name) - Len(suffix) + 1, Len(name)) = suffix

\* re.search(r'(\d{4})保单', name): the start of the four digits, 0 for no match
catalog_year_match(name) ==
    LET starts == {i \in 1..Len(name) :
                      DigitRun(name, i) >= 4 /\ Slice(name, i + 4, i + 13) = "<bao><dan>"}
    IN  IF starts = {} THEN 0 ELSE CHOOSE i \in starts : \A j \in starts : i <= j

\* _extract_years_from_files: the files of each year, each with its week
_extract_years_from_files(dir) ==
    LET named == {name \in DOMAIN dir :
                     /\ IsOutputName(name)
                     /\ catalog_year_match(name) > 0
                     /\ week_match(name) > 0}
        year(name) == ParseDigits(SubSeq(name, catalog_year_match(name),
                                         catalog_year_match(name) + 3), 0)
        week(name) == ParseDigits(SubSeq(name, week_match(name),
                                         week_match(name) + DigitRun(name, week_match(name)) - 1), 0)
    IN  [y \in {year(name) : name \in named} |->
            {[filename |-> name, week |-> week(name)] : name \in {m \in named : year(m) = y}}]

\* a wrong list of missing weeks: every week 1..52 of the year that is not
\* available
_find_missing_weeks_of_the_year(available_weeks) ==
    Sorted({w \in 1..52 : w \notin Range(available_weeks)})

\* _find_missing_weeks
_find_missing_weeks(available_weeks) ==
    IF Len(available_weeks) = 0 THEN [w \in 1..52 |-> w]
    ELSE LET min_week == CHOOSE w \in Range(available_weeks) :
                            \A v \in Range(available_weeks) : w <= v
             max_week == CHOOSE w \in Range(available_weeks) :
                            \A v \in Range(available_weeks) : w >= v
         IN  Sorted((min_week..max_week) \ Range(available_weeks))

RECURSIVE SumOver(_, _)
SumOver(f, keys) ==
    IF keys = {} THEN 0
    ELSE LET k == CHOOSE x \in keys : TRUE
         IN  f[k] + SumOver(f, keys \ {k})

\* the content of available_weeks.json, but for its time stamp
_generate_available_weeks(dir) ==
    LET years_data == _extract_years_from_files(dir)
        weeks == [y \in DOMAIN years_data |-> Sorted({f.week : f \in years_data[y]})]
    IN  [year_week_mapping |->
            [y \in DOMAIN years_data |->
                [available_weeks |-> weeks[y],
                 weeks_count |-> Len(weeks[y]),
                 missing_weeks |-> _find_missing_weeks(weeks[y])]],
         total_weeks |-> SumOver([y \in DOMAIN years_data |-> Len(weeks[y])], DOMAIN years_data)]

----------------------------------------------------------------------------
(* DataProcessor (src/app.py): the pipeline of one uploaded workbook        *)

\* DataProcessor.required_fields: 16 dimensions, 9 absolute fields, week_number
DataProcessor_required_fields == <<
    "snapshot_date", "policy_start_year", "business_type_category", "chengdu_branch",
    "third_level_organization", "customer_category_3", "insurance_type",
    "is_new_energy_vehicle", "coverage_type", "is_transferred_vehicle", "renewal_status",
    "vehicle_insurance_grade", "highway_risk_grade", "large_truck_score",
    "small_truck_score", "terminal_source",
    "signed_premium_yuan", "matured_premium_yuan", "policy_count", "claim_case_count",
    "reported_claim_payment_yuan", "expense_amount_yuan",
    "commercial_premium_before_discount_yuan", "premium_plan_yuan",
    "marginal_contribution_amount_yuan", "week_number" >>

\* DataProcessor.filtering_fields
filtering_fields == <<
    "snapshot_date", "policy_start_year", "business_type_category", "chengdu_branch",
    "third_level_organization", "customer_category_3", "insurance_type", "coverage_type",
    "renewal_status", "terminal_source", "vehicle_insurance_grade", "highway_risk_grade",
    "large_truck_score", "small_truck_score", "is_new_energy_vehicle",
    "is_transferred_vehicle", "week_number" >>

\* DataProcessor.field_mapping
field_mapping == <<
    <<"<shua><xin><shi><jian>", "snapshot_date">>,                  \* 刷新时间
    <<"<bao><xian><qi><qiB>", "policy_start_year">>,                \* 保险起期
    <<"<ye><wu><lei><xing><fen><lei>", "business_type_category">>,  \* 业务类型分类
    <<"<cheng><du><zhong><zhi>", "chengdu_branch">>,                \* 成都中支
    <<"<san><ji><jiB><gou>", "third_level_organization">>,          \* 三级机构
    <<"<ke><hu><lei><bie>3", "customer_category_3">>,               \* 客户类别3
    <<"<xian><zhongB><lei>", "insurance_type">>,                    \* 险种类
    <<"<shiB><fou><xin><neng><yuan><che>1", "is_new_energy_vehicle">>,  \* 是否新能源车1
    <<"<jiao><san>/<zhu><quan>", "coverage_type">>,                 \* 交三/主全
    <<"<shiB><fou><guo><hu><che>", "is_transferred_vehicle">>,      \* 是否过户车
    <<"<xu><bao><qing><kuang>", "renewal_status">>,                 \* 续保情况
    <<"<che><xian><fen><deng><ji>", "vehicle_insurance_grade">>,    \* 车险分等级
    <<"<gao><su><feng><xian><deng><ji>", "highway_risk_grade">>,    \* 高速风险等级
    <<"<da><huo><che><ping><fen>", "large_truck_score">>,           \* 大货车评分
    <<"<xiao><huo><che><ping><fen>", "small_truck_score">>,         \* 小货车评分
    <<"<zhongC><duan><lai><yuan>", "terminal_source">>,             \* 终端来源
    <<"<gen><dan><bao><fei>(<wan>)", "signed_premium_wan">>,        \* 跟单保费(万)
    <<"<dan><jun><bao><fei>", "average_premium">>,                  \* 单均保费
    <<"<man><qiB><jing><bao><fei>(<wan>)", "matured_premium_wan">>, \* 满期净保费(万)
    <<"<chuB><xian><pin><duB>", "claim_frequency">>,                \* 出险频度
    <<"<an><jianB><shu>", "claim_case_count">>,                     \* 案件数
    <<"<an><jun><pei><kuan>", "average_claim_amount">>,             \* 案均赔款
    <<"<zong><pei><kuan>(<wan>)", "total_claim_wan">>,              \* 总赔款(万)
    <<"<man><qiB><pei><fu><lv>", "matured_claim_ratio">>,           \* 满期赔付率
    <<"<fei><yong><lv>", "expense_ratio">>,                         \* 费用率
    <<"<bian><dong><cheng><ben><lv>", "variable_cost_ratio">>,      \* 变动成本率
    <<"<shang><ye><xian><zi><zhu><xi><shu>", "commercial_autonomous_coefficient">>,  \* 商业险自主系数
    <<"<zhou><ci>", "week_number">> >>                              \* 周次

\* the name df.rename(columns=field_mapping) gives a column
Renamed(name) ==
    IF \E i \in 1..Len(field_mapping) : field_mapping[i][1] = name
    THEN field_mapping[CHOOSE i \in 1..Len(field_mapping) : field_mapping[i][1] = name][2]
    ELSE name

\* boolean_map.get(x, False): 是, Y, true and True are True, and so is the
\* number 1, which is equal to the key True; everything else is False
boolean_map(c) ==
    IF c.k = "bool" THEN c
    ELSE IF c.k = "str" THEN Bool(c.s \in {"<shiB>", "Y", "true"})
    ELSE IF c.k = "num" THEN Bool(c.n = 1 /\ c.d = 1)
    ELSE Bool(FALSE)

\* the year of the day that is `days` days after 1900-01-01 (Gregorian calendar)
YearOfDay(days) ==
    LET z == days - 25567 + 719468
        era == z \div 146097
        doe == z - era * 146097
        yoe == (doe - doe \div 1460 + doe \div 36524 - doe \div 146096) \div 365
        doy == doe - (365 * yoe + yoe \div 4 - yoe \div 100)
        mp == (5 * doy + 2) \div 153
    IN  yoe + era * 400 + (IF mp < 10 THEN 0 ELSE 1)

\* the days after 1900-01-01 that pd.Timestamp can hold: 1677-09-22 .. 2262-04-11
MinTimestampDay == -81184
MaxTimestampDay == 132318

\* a text of the form YYYY-MM-DD or YYYY/MM/DD, as pd.to_datetime parses it
IsDateText(text) ==
    /\ Len(text) = 10
    /\ DigitRun(text, 1) = 4
    /\ SubSeq(text, 5, 5) \in {"-", "/"}
    /\ DigitRun(text, 6) = 2
    /\ SubSeq(text, 8, 8) = SubSeq(text, 5, 5)
    /\ DigitRun(text, 9) = 2
    /\ ParseDigits(SubSeq(text, 6, 7), 0) \in 1..12
    /\ ParseDigits(SubSeq(text, 9, 10), 0) \in 1..28

\* extract_year(value) of standardize_fields: 0 for an empty cell, the year of
\* a date text, the integer of a text of digits, the integer part of a number
\* between 1900 and 2100, the year of the day of any other number counted
\* from 1900-01-01, and 0 when the conversion raises or gives no date
extract_year(value) ==
    IF value.k = "nan" THEN IntC(0)
    ELSE IF value.k = "str"
         THEN IF (Contains(value.s, "/") \/ Contains(value.s, "-") \/ Contains(value.s, "<nian>"))
                 /\ IsDateText(value.s)
              THEN IntC(ParseDigits(SubSeq(value.s, 1, 4), 0))
              ELSE IF Len(value.s) > 0 /\ DigitRun(value.s, 1) = Len(value.s)
                   THEN IntC(ParseDigits(value.s, 0))
                   ELSE IntC(0)
    ELSE IF value.k = "num"
         THEN IF Less(IntC(1900), value) /\ Less(value, IntC(2100))
              THEN Trunc(value)
              ELSE IF (value.n \div value.d) \in MinTimestampDay..MaxTimestampDay
                   THEN IntC(YearOfDay(value.n \div value.d))
                   ELSE IntC(0)
    ELSE IntC(0)

DefaultWeek == 40

\* week_number of standardize_fields: the number between 第 and 周 in the
\* name of the upload, 40 when there is none
filename_week(original_filename) ==
    IF week_match(original_filename) = 0 THEN DefaultWeek
    ELSE ParseDigits(SubSeq(original_filename, week_match(original_filename),
                            week_match(original_filename)
                              + DigitRun(original_filename, week_match(original_filename)) - 1), 0)

\* the default of a filtering field the table does not have
filtering_default(field) ==
    IF field \in {"is_new_energy_vehicle", "is_transferred_vehicle"} THEN Bool(FALSE)
    ELSE IF field \in {"policy_start_year", "week_number"} THEN IntC(0)
    ELSE Str("")

\* the filtering fields the renamed table does not have, in the order of the list
RECURSIVE MissingFrom(_, _)
MissingFrom(cols, i) ==
    IF i > Len(filtering_fields) THEN <<>>
    ELSE IF filtering_fields[i] \in Range(cols) THEN MissingFrom(cols, i + 1)
    ELSE <<filtering_fields[i]>> \o MissingFrom(cols, i + 1)

\* the column of standardize_fields' result named name; series is the column of
\* the renamed table or the column of defaults
standardized_column(name, series, week_number) ==
    IF name = "week_number" THEN [r \in 1..Len(series) |-> IntC(week_number)]
    ELSE IF name = "policy_start_year" THEN SeqMap(extract_year, series)
    ELSE IF name \in {"is_new_energy_vehicle", "is_transferred_vehicle"}
         THEN SeqMap(boolean_map, series)
    ELSE series

\* DataProcessor.standardize_fields, for a table whose columns have distinct
\* names after the renaming
standardize_fields(df, original_filename) ==
    LET renamed == SeqMap(Renamed, df.cols)
        missing == MissingFrom(renamed, 1)
        week_number == filename_week(original_filename)
    IN  [cols |-> renamed \o missing,
         data |-> [i \in 1..(Len(renamed) + Len(missing)) |->
                     IF i <= Len(renamed)
                     THEN standardized_column(renamed[i], df.data[i], week_number)
                     ELSE standardized_column(missing[i - Len(renamed)],
                                              Broadcast(filtering_default(missing[i - Len(renamed)]),
                                                        df.n),
                                              week_number)],
         n |-> df.n]

\* pd.to_numeric(df[name], errors='coerce').fillna(value)
numeric_or(df, name, value) == fillna(to_numeric(Col(df, name)), value)

\* series.replace(0, 1.0)
replace_zero(series) ==
    [i \in 1..Len(series) |-> IF IsNum(series[i]) /\ series[i].n = 0 THEN IntC(1) ELSE series[i]]

\* series * 10000 of a column in units of ten thousand, 0.0 without the column
yuan_of_wan(df, name) ==
    IF HasCol(df, name) THEN Scale(numeric_or(df, name, IntC(0)), IntC(10000))
    ELSE Broadcast(IntC(0), df.n)

\* DataProcessor.calculate_absolute_fields: [ok, err, df]; astype(int) raises
\* on a value that is not finite
DataProcessor_calculate_absolute_fields(df) ==
    LET signed == yuan_of_wan(df, "signed_premium_wan")
        matured == yuan_of_wan(df, "matured_premium_wan")
        commercial ==
            IF HasCol(df, "commercial_autonomous_coefficient")
            THEN LET coeff == replace_zero(numeric_or(df, "commercial_autonomous_coefficient",
                                                      IntC(1)))
                 IN  [r \in 1..df.n |-> Div(matured[r], coeff[r])]
            ELSE matured
        policy ==
            IF HasCol(df, "average_premium")
            THEN LET avg_premium == replace_zero(numeric_or(df, "average_premium", IntC(1)))
                 IN  [r \in 1..df.n |-> Round(Div(matured[r], avg_premium[r]))]
            ELSE Broadcast(IntC(1), df.n)
        claims ==
            IF HasCol(df, "claim_case_count") THEN numeric_or(df, "claim_case_count", IntC(0))
            ELSE Broadcast(IntC(0), df.n)
        reported == yuan_of_wan(df, "total_claim_wan")
        expense ==
            IF HasCol(df, "expense_ratio")
            THEN LET expense_ratio == numeric_or(df, "expense_ratio", IntC(0))
                 IN  [r \in 1..df.n |-> Mul(signed[r], expense_ratio[r])]
            ELSE Broadcast(IntC(0), df.n)
        plan ==
            IF HasCol(df, "premium_plan_coefficient")
            THEN LET plan_coeff == numeric_or(df, "premium_plan_coefficient", IntC(1))
                 IN  [r \in 1..df.n |-> Mul(matured[r], plan_coeff[r])]
            ELSE matured
        marginal ==
            IF HasCol(df, "variable_cost_ratio")
            THEN LET variable_cost_ratio == numeric_or(df, "variable_cost_ratio", IntC(0))
                 IN  [r \in 1..df.n |-> Mul(matured[r], Sub(IntC(1), variable_cost_ratio[r]))]
            ELSE matured
    IN  IF ~CanCastInt(policy) \/ ~CanCastInt(claims)
        THEN [ok |-> FALSE, err |-> "ValueError", df |-> df]
        ELSE [ok |-> TRUE, err |-> "",
              df |-> Only({SetCols(df,
                                   <<"signed_premium_yuan", "matured_premium_yuan",
                                     "commercial_premium_before_discount_yuan", "policy_count",
                                     "claim_case_count", "reported_claim_payment_yuan",
                                     "expense_amount_yuan", "premium_plan_yuan",
                                     "marginal_contribution_amount_yuan">>, series) :
                             series \in {<<signed, matured, commercial, AsTypeInt(policy),
                                           AsTypeInt(claims), reported, expense, plan,
                                           marginal>>}})]

\* DataProcessor.finalize_output: the required fields in their order; a field
\* the table does not have is a column of None, written as empty cells
finalize_output(df) ==
    [cols |-> DataProcessor_required_fields,
     data |-> [i \in 1..Len(DataProcessor_required_fields) |->
                 IF HasCol(df, DataProcessor_required_fields[i])
                 THEN Col(df, DataProcessor_required_fields[i])
                 ELSE Broadcast(NaN, df.n)],
     n |-> df.n]

\* sorted(int(year) for year in df_final['policy_start_year'].dropna().unique())
RECURSIVE SortedYears(_)
SortedYears(years) ==
    IF years = {} THEN <<>>
    ELSE LET least == CHOOSE y \in years : \A z \in years : y <= z
         IN  <<least>> \o SortedYears(years \ {least})

\* the index labels of the rows of df_final whose policy_start_year is year
RECURSIVE RowsOfYear(_, _, _)
RowsOfYear(series, year, r) ==
    IF r > Len(series) THEN <<>>
    ELSE IF IsNum(series[r]) /\ series[r] = IntC(year)
         THEN <<r>> \o RowsOfYear(series, year, r + 1)
    ELSE RowsOfYear(series, year, r + 1)

\* a wrong filter: the rows of the years up to year
year_data_up_to(df_final, year) ==
    LET series == Col(df_final, "policy_start_year")
        index == Sorted({r \in 1..df_final.n : LessEq(series[r], IntC(year))})
    IN  [cols |-> df_final.cols,
         data |-> [i \in 1..Len(df_final.cols) |->
                     [k \in 1..Len(index) |-> df_final.data[i][index[k]]]],
         n |-> Len(index),
         index |-> index]

\* df_final[df_final['policy_start_year'] == year]: the rows keep their labels
year_data(df_final, year) ==
    LET index == RowsOfYear(Col(df_final, "policy_start_year"), year, 1)
    IN  [cols |-> df_final.cols,
         data |-> [i \in 1..Len(df_final.cols) |->
                     [k \in 1..Len(index) |-> df_final.data[i][index[k]]]],
         n |-> Len(index),
         index |-> index]

\* {year}保单第{week_number:02d}周变动成本明细表.csv
DataProcessor_output_filename(year, week_number) ==
    ToString(year) \o "<bao><dan><di>" \o Format02d(week_number)
        \o "<zhou><bian><dong><cheng><ben><ming><xiB><biao>.csv"

\* 没有有效的年度数据可以输出
NoYearMessage == "<mei><you><you><xiaoB><de><nian><duB><shu><ju><keB><yiB><shuB><chuB>"

\* the files of the years, once df_final is there
output_of(df_final) ==
    LET series == Col(df_final, "policy_start_year")
        years == SortedYears({Trunc(series[r]).n : r \in {q \in 1..df_final.n : IsNum(series[q])}})
        weeks == dropna(Col(df_final, "week_number"))
        week_number == IF Len(weeks) > 0 THEN Trunc(weeks[1]).n ELSE DefaultWeek
    IN  [i \in 1..Len(years) |->
            [year |-> years[i],
             filename |-> DataProcessor_output_filename(years[i], week_number),
             row_count |-> year_data(df_final, years[i]).n,
             table |-> year_data(df_final, years[i])]]

\* DataProcessor.process_excel_to_csv on an upload [name, readable, df]:
\* [success, message, output_files, field_count, total_row_count, years_processed];
\* output_files come with the table written for each of them; total_row_count
\* is the sum of their row_count
process_excel_to_csv(upload) ==
    LET failure(message) ==
            [success |-> FALSE, message |-> message, output_files |-> <<>>,
             field_count |-> 0, total_row_count |-> 0, years_processed |-> <<>>]
    IN  IF ~upload.readable THEN failure(FailureMessage("ValueError"))
        ELSE LET df_with_absolute ==
                     Only({DataProcessor_calculate_absolute_fields(df_standardized) :
                             df_standardized \in {standardize_fields(upload.df, upload.name)}})
             IN  IF ~df_with_absolute.ok THEN failure(FailureMessage(df_with_absolute.err))
                 ELSE Only({IF Len(output_files) = 0 THEN failure(NoYearMessage)
                            ELSE [success |-> TRUE, message |-> "",
                                  output_files |-> output_files,
                                  field_count |-> Len(DataProcessor_required_fields),
                                  total_row_count |->
                                      SumOver([i \in 1..Len(output_files) |->
                                                  output_files[i].row_count],
                                              1..Len(output_files)),
                                  years_processed |-> [i \in 1..Len(output_files) |->
                                                          output_files[i].year]] :
                              output_files \in {output_of(finalize_output(df_with_absolute.df))}})

----------------------------------------------------------------------------
(* Input tables of the derivation                                          *)

MaxRows == 2        \* rows of an input table
MaxCols == 2        \* columns of an input table of the derivation

\* the columns an input table of the derivation may have, in file order (the
\* second candidate of the signed premium stands before the first one)
DerivePool == <<
    "<qian><dan><bao><fei>(<wan>)",            \* 签单保费(万)
    "<gen><dan><bao><fei>",                    \* 跟单保费
    "<man><qiB><bao><fei>",                    \* 满期保费
    "<man><qiB><jing><bao><fei>(<wan>)",       \* 满期净保费(万)
    "<zong><pei><kuan>",                       \* 总赔款
    "<an><jianB><shu>",                        \* 案件数
    "<jianB><shu>",                            \* 件数
    "<bao><dan><jianB><shu>",                  \* 保单件数
    "<dan><jun><bao><fei>",                    \* 单均保费
    "<fei><yong><lv>",                         \* 费用率
    "<shang><ye><xian><zi><zhu><xi><shu>",     \* 商业险自主系数
    "<bian><dong><cheng><ben><lv>" >>          \* 变动成本率

\* the kinds of row: row kind t gives column DerivePool[c] the cell DeriveCells[c][t]
RowKinds == 1..5

DeriveCells == <<
    <<IntC(10), IntC(20000), Str("abc"), IntC(3), NaN>>,
    <<IntC(12), IntC(9999), IntC(10000), Str("abc"), IntC(30000)>>,
    <<IntC(11), IntC(10000), IntC(9999), NaN, IntC(50000)>>,
    <<Num(95, 10), IntC(9999), IntC(10000), IntC(2), Str("-")>>,
    <<IntC(3), IntC(10001), NaN, IntC(9999), IntC(40000)>>,
    <<IntC(2), IntC(7), Str("x"), Num(27, 10), NaN>>,
    <<IntC(4), IntC(30), IntC(1), NaN, IntC(-3)>>,
    <<IntC(6), IntC(50), NaN, Str("x"), IntC(10)>>,
    <<IntC(0), IntC(2000), IntC(-5), Str("abc"), NaN>>,
    <<Num(1, 5), IntC(15), NaN, Str("abc"), IntC(0)>>,
    <<IntC(0), Num(1, 2), IntC(-2), NaN, Str("abc")>>,
    <<Num(3, 5), IntC(3), NaN, Str("abc"), IntC(-1)>> >>

\* the strictly increasing index sequences over 1..n with at most k entries
RECURSIVE Picks(_, _)
Picks(n, k) ==
    IF n = 0 \/ k = 0 THEN {<<>>}
    ELSE Picks(n - 1, k) \cup {Append(p, n) : p \in Picks(n - 1, k - 1)}

\* the rows of a table, as sequences of kinds. The derivations work row by row
\* and on the maximum of a column, so the rows are taken in one order only.
RowSeqs ==
    {kinds \in UNION {[1..m -> RowKinds] : m \in 1..MaxRows} :
        \A r \in 1..(Len(kinds) - 1) : kinds[r] <= kinds[r + 1]}

\* the table with the pool columns idx (in that order) and one row per kind
MkTable(pool, cells, idx, kinds) ==
    [cols |-> [i \in 1..Len(idx) |-> pool[idx[i]]],
     data |-> [i \in 1..Len(idx) |-> [r \in 1..Len(kinds) |-> cells[idx[i]][kinds[r]]]],
     n |-> Len(kinds)]

DeriveTables ==
    {MkTable(DerivePool, DeriveCells, idx, kinds) :
        idx \in Picks(Len(DerivePool), MaxCols),
        kinds \in RowSeqs}

NoResult == [ok |-> FALSE, err |-> "none", df |-> EmptyFrame]

----------------------------------------------------------------------------
(* Specification of the derivation alone                                   *)

InitDerive ==
    /\ pc = "derive"
    /\ arg \in {[df |-> t, filename |-> ""] : t \in DeriveTables}
    /\ ret = NoResult
    /\ csv_files = <<>>
    /\ Fresh

\* calculate_absolute_fields of src/app_original.py on the table
Derive ==
    /\ pc = "derive"
    /\ ret' = calculate_absolute_fields(arg.df)
    /\ pc' = "derived"
    /\ UNCHANGED <<arg, batch>>

\* DataProcessor.calculate_absolute_fields of src/app.py on the table, as
\* process_excel_to_csv calls it: on the result of standardize_fields
DeriveDP ==
    /\ pc = "derive"
    /\ ret' = DataProcessor_calculate_absolute_fields(standardize_fields(arg.df, arg.filename))
    /\ pc' = "derived_dp"
    /\ UNCHANGED <<arg, batch>>

NextDerive == Derive \/ DeriveDP

SpecDerive == InitDerive /\ [][NextDerive]_vars

----------------------------------------------------------------------------
(* Properties of the derivation (checked under SpecDerive)                 *)

\* the table with its columns in the opposite order
ReverseCols(df) == [df EXCEPT !.cols = Reverse(df.cols), !.data = Reverse(df.data)]

\* the table without the columns labelled name
RECURSIVE KeepIdx(_, _, _)
KeepIdx(df, name, i) ==
    IF i > Len(df.cols) THEN <<>>
    ELSE IF df.cols[i] = name THEN KeepIdx(df, name, i + 1)
    ELSE <<i>> \o KeepIdx(df, name, i + 1)

Without(df, name) ==
    LET keep == KeepIdx(df, name, 1)
    IN  [df EXCEPT !.cols = [i \in 1..Len(keep) |-> df.cols[keep[i]]],
                   !.data = [i \in 1..Len(keep) |-> df.data[keep[i]]]]

\* the derived field each candidate list feeds
DerivedOf == [
    signed_premium |-> "signed_premium_yuan",
    matured_premium |-> "matured_premium_yuan",
    claim_payment |-> "reported_claim_payment_yuan",
    claim_count |-> "claim_case_count",
    policy_count_field |-> "policy_count",
    expense_ratio |-> "expense_amount_yuan",
    commercial_coeff |-> "commercial_premium_before_discount_yuan",
    variable_cost_ratio |-> "marginal_contribution_amount_yuan",
    average_premium |-> "policy_count" ]

DerivedValues(df) == [i \in 1..Len(AbsoluteFields) |-> Col(df, AbsoluteFields[i])]

\* C6: the derived fields do not depend on the order of the table's columns,
\* and when two candidates of one field are both columns of the table the
\* derived field is what it is without the later candidate (only the earlier
\* one in the candidate list contributes).
C6_FirstCandidateWins ==
    (pc = "derived" /\ ret.ok) =>
        /\ DerivedValues(ret.df)
             = DerivedValues(calculate_absolute_fields(ReverseCols(arg.df)).df)
        /\ \A k \in DOMAIN possible_source_fields :
             LET list == possible_source_fields[k]
             IN  \A i, j \in 1..Len(list) :
                    (i < j /\ HasCol(arg.df, list[i]) /\ HasCol(arg.df, list[j])) =>
                        Col(ret.df, DerivedOf[k])
                          = Col(calculate_absolute_fields(Without(arg.df, list[j])).df, DerivedOf[k])

\* 签单保费(万) stands before 跟单保费 in the table, 跟单保费 stands first in the
\* candidate list: the signed premium is that of 跟单保费 and differs from
\* what 签单保费(万) would give
C6_Witness ==
    /\ pc = "derived"
    /\ ret.ok
    /\ arg.df.cols = <<"<qian><dan><bao><fei>(<wan>)", "<gen><dan><bao><fei>">>
    /\ Col(ret.df, "signed_premium_yuan") = to_yuan(arg.df, "<gen><dan><bao><fei>")
    /\ Col(ret.df, "signed_premium_yuan") # to_yuan(arg.df, "<qian><dan><bao><fei>(<wan>)")

\* the table of scenario A: the columns 签单保费(万) and 满期净保费(万) only,
\* every row 10 and 9.5
ScenarioA(df) ==
    /\ Len(df.cols) = 2
    /\ Range(df.cols) = {"<qian><dan><bao><fei>(<wan>)", "<man><qiB><jing><bao><fei>(<wan>)"}
    /\ df.n >= 1
    /\ \A r \in 1..df.n :
          /\ Col(df, "<qian><dan><bao><fei>(<wan>)")[r] = IntC(10)
          /\ Col(df, "<man><qiB><jing><bao><fei>(<wan>)")[r] = Num(95, 10)

\* C7: on the table of scenario A every row gets signed 100000, matured
\* 95000, policy_count 5, claim_case_count 0, reported claim payment 60000,
\* expense 15000 and marginal contribution 38000.
C7_ScenarioA ==
    (pc = "derived" /\ ScenarioA(arg.df)) =>
        /\ ret.ok
        /\ \A r \in 1..arg.df.n :
              /\ Col(ret.df, "signed_premium_yuan")[r] = IntC(100000)
              /\ Col(ret.df, "matured_premium_yuan")[r] = IntC(95000)
              /\ Col(ret.df, "policy_count")[r] = IntC(5)
              /\ Col(ret.df, "claim_case_count")[r] = IntC(0)
              /\ Col(ret.df, "reported_claim_payment_yuan")[r] = IntC(60000)
              /\ Col(ret.df, "expense_amount_yuan")[r] = IntC(15000)
              /\ Col(ret.df, "marginal_contribution_amount_yuan")[r] = IntC(38000)

C7_Witness ==
    /\ pc = "derived"
    /\ ScenarioA(arg.df)
    /\ ret.ok
    /\ Col(ret.df, "marginal_contribution_amount_yuan")[1] = IntC(38000)

\* the cell is no number > 0 (zero, negative, empty or non-numeric)
InvalidDivisor(c) == ~(c.k = "num" /\ c.n > 0)

NoPolicyCountColumn(df) == find_field(df, possible_source_fields.policy_count_field) = None

\* C8 (as claimed): with no policy count column and an average premium
\* column, a row whose average premium is 0, negative or non-numeric gets
\* policy_count = round(signed premium / 1).
C8_InvalidAverageIsOne ==
    (/\ pc = "derived"
     /\ ret.ok
     /\ NoPolicyCountColumn(arg.df)
     /\ HasCol(arg.df, "<dan><jun><bao><fei>")) =>
        \A r \in 1..arg.df.n :
            InvalidDivisor(Col(arg.df, "<dan><jun><bao><fei>")[r]) =>
                Col(ret.df, "policy_count")[r]
                  = Trunc(Round(Div(Col(ret.df, "signed_premium_yuan")[r], IntC(1))))

AllFinite(series) == \A r \in 1..Len(series) : series[r].k = "num"

\* C9: whatever the cells of the average premium, coefficient, expense ratio
\* and variable cost ratio columns are, the derivation (that of
\* src/app_original.py and that of DataProcessor) raises nothing and every
\* value of the 8 derived fields is a finite number.
C9_NoErrorNoNaN ==
    pc \in {"derived", "derived_dp"} =>
        /\ ret.ok
        /\ \A i \in 1..Len(AbsoluteFields) :
              /\ HasCol(ret.df, AbsoluteFields[i])
              /\ Len(Col(ret.df, AbsoluteFields[i])) = arg.df.n
              /\ AllFinite(Col(ret.df, AbsoluteFields[i]))

\* a signed premium of 10 (万) with the average premium 0 in one row and a
\* non-numeric average premium in the other
C9_Witness ==
    /\ pc = "derived"
    /\ ret.ok
    /\ arg.df.cols = <<"<qian><dan><bao><fei>(<wan>)", "<dan><jun><bao><fei>">>
    /\ arg.df.n = 2
    /\ arg.df.data[2][1] = IntC(0)
    /\ arg.df.data[2][2].k = "str"
    /\ AllFinite(Col(ret.df, "policy_count"))

\* the value pd.to_numeric(...).fillna(0) gives a cell
NumOrZero(c) == IF c.k = "num" THEN c ELSE IntC(0)

\* the expected yuan values of a source column by the unit rule
ExpectedYuan(series, marked) ==
    LET below == \A r \in 1..Len(series) : Less(NumOrZero(series[r]), IntC(10000))
    IN  [r \in 1..Len(series) |->
            IF marked \/ below THEN Mul(NumOrZero(series[r]), IntC(10000))
            ELSE NumOrZero(series[r])]

\* the columns of the derivation's tables whose name carries the marker (万)
MarkedColumns == {"<qian><dan><bao><fei>(<wan>)", "<man><qiB><jing><bao><fei>(<wan>)"}

MonetaryLists == {"signed_premium", "matured_premium", "claim_payment"}

\* C10: a monetary source column whose name carries (万) is multiplied by
\* 10000 whatever its values; another one is multiplied by 10000 exactly
\* when its maximum (non-numeric cells as 0) is below 10000.
C10_UnitDecision ==
    (pc = "derived" /\ ret.ok) =>
        \A k \in MonetaryLists :
            LET field == find_field(arg.df, possible_source_fields[k])
            IN  field # None =>
                    Col(ret.df, DerivedOf[k])
                      = ExpectedYuan(Col(arg.df, field), field \in MarkedColumns)

\* 签单保费(万) holds 20000, above the threshold, and is multiplied all the
\* same; 跟单保费 with maximum 10000 is left as it is
C10_Witness ==
    /\ pc = "derived"
    /\ ret.ok
    /\ arg.df.cols = <<"<qian><dan><bao><fei>(<wan>)">>
    /\ arg.df.data[1] = <<IntC(20000)>>
    /\ Col(ret.df, "signed_premium_yuan") = <<IntC(200000000)>>

----------------------------------------------------------------------------
(* Specification of finalize_output_fields alone                           *)

\* the columns an input table of the finalizer may have: fields of each kind
\* of default, two columns that are no field, and a second column labelled
\* snapshot_date
FinalizePool == <<"snapshot_date", "policy_start_year", "is_new_energy_vehicle",
                  "week_number", "signed_premium_yuan", "policy_count",
                  "week_number_1", "field_2", "snapshot_date">>

FinalizeKinds == 1..2

FinalizeCells == <<
    <<Str("2025-01-01"), Str("2025-01-08")>>,
    <<IntC(2025), IntC(2024)>>,
    <<Bool(TRUE), Bool(FALSE)>>,
    <<IntC(7), IntC(8)>>,
    <<IntC(100000), IntC(0)>>,
    <<IntC(5), IntC(0)>>,
    <<IntC(9), NaN>>,
    <<Str("x"), Str("y")>>,
    <<Str("2025-02-01"), NaN>> >>

FinalizeTables ==
    {MkTable(FinalizePool, FinalizeCells, idx, kinds) :
        idx \in {p : p \in Picks(Len(FinalizePool), Len(FinalizePool))}
                \cup {Reverse(p) : p \in Picks(Len(FinalizePool), Len(FinalizePool))},
        kinds \in UNION {[1..m -> FinalizeKinds] : m \in 1..MaxRows}}

InitFinalize ==
    /\ pc = "finalize"
    /\ arg \in {[df |-> t, filename |-> ""] : t \in FinalizeTables}
    /\ ret = NoResult
    /\ csv_files = <<>>
    /\ Fresh

Finalize ==
    /\ pc = "finalize"
    /\ ret' = finalize_output_fields(arg.df)
    /\ pc' = "finalized"
    /\ UNCHANGED <<arg, batch>>

NextFinalize == Finalize

SpecFinalize == InitFinalize /\ [][NextFinalize]_vars

\* C1: whatever the columns of the input and their order, the table
\* finalize_output_fields returns has exactly the 25 required fields as its
\* columns, in the fixed order.
C1_ExactlyTheRequiredFields ==
    (pc = "finalized" /\ ret.ok) =>
        /\ Len(ret.df.cols) = 25
        /\ ret.df.cols = required_fields
        /\ ret.df.cols[17] = "week_number"
        /\ SubSeq(ret.df.cols, 18, 25) = AbsoluteFields
        /\ \A i, j \in 1..25 : ret.df.cols[i] = ret.df.cols[j] => i = j
        /\ Len(ret.df.data) = 25
        /\ \A i \in 1..Len(ret.df.data) : Len(ret.df.data[i]) = ret.df.n

\* the input has a column that is no field and its fields out of order
C1_Witness ==
    /\ pc = "finalized"
    /\ ret.ok
    /\ arg.df.cols = <<"field_2", "signed_premium_yuan", "week_number", "policy_start_year">>
    /\ ret.df.cols = required_fields

IntegerFields == {"policy_start_year", "week_number", "policy_count", "claim_case_count"}

BooleanFields == {"is_new_energy_vehicle", "is_transferred_vehicle"}

\* the default the field catalogue gives a field by its kind of value
TypedDefault(field) ==
    IF field \in IntegerFields THEN IntC(0)
    ELSE IF field \in BooleanFields THEN Bool(FALSE)
    ELSE IF Contains(field, "yuan") THEN IntC(0)
    ELSE Str("")

\* C4 (as claimed): a field that is no column of the finalizer's input has
\* its typed default on every output row, wherever it stands in the order.
C4_TypedDefaults ==
    (pc = "finalized" /\ ret.ok) =>
        \A i \in 1..Len(required_fields) :
            ~HasCol(arg.df, required_fields[i]) =>
                \A r \in 1..ret.df.n :
                    Col(ret.df, required_fields[i])[r] = TypedDefault(required_fields[i])

----------------------------------------------------------------------------
(* Specification of process_all_files over a directory of files            *)

MaxFiles == 3       \* files of a directory

\* the table with the given columns; data holds one sequence of cells a column
Table(cols, data) == [cols |-> cols, data |-> data, n |-> Len(data[1])]

CsvFile(name, df) == [name |-> name, readable |-> TRUE, df |-> df]

\* the files a directory may hold
CsvFiles == <<
    \* 2025年第07周.csv: 跟单保费, 满期保费, 费用率, 是否新能源车1
    CsvFile("2025<nian><di>07<zhou>.csv",
            Table(<<"<gen><dan><bao><fei>", "<man><qiB><bao><fei>", "<fei><yong><lv>",
                    "<shiB><fou><xin><neng><yuan><che>1">>,
                  << <<IntC(100000), IntC(50000)>>, <<IntC(95000), IntC(40000)>>,
                     <<Num(15, 100), Num(1, 10)>>, <<Str("<shiB>"), Str("<fou>")>> >>)),
    \* weekly.csv: 保险起期, 周次, 签单保费(万), 三级机构
    CsvFile("weekly.csv",
            Table(<<"<bao><xian><qi><qiB>", "<zhou><ci>", "<qian><dan><bao><fei>(<wan>)",
                    "<san><ji><jiB><gou>">>,
                  << <<IntC(2024), IntC(2024)>>, <<IntC(12), IntC(12)>>,
                     <<IntC(10), IntC(20)>>, <<Str("A"), Str("B")>> >>)),
    \* empty.csv: a header and no row
    CsvFile("empty.csv",
            [cols |-> <<"<bao><xian><qi><qiB>", "<zhou><ci>">>, data |-> << <<>>, <<>> >>, n |-> 0]),
    \* dates.csv: 保险起期 holds dates, 周次
    CsvFile("dates.csv",
            Table(<<"<bao><xian><qi><qiB>", "<zhou><ci>">>,
                  << <<Str("2025-01-03")>>, <<IntC(1)>> >>)),
    \* 2023dup.csv: 刷新时间 next to snapshot_date, 跟单保费
    CsvFile("2023dup.csv",
            Table(<<"<shua><xin><shi><jian>", "snapshot_date", "<gen><dan><bao><fei>">>,
                  << <<Str("2023-05-01")>>, <<Str("2023-05-02")>>, <<IntC(30000)>> >>)),
    \* data.csv: 跟单保费, 周次 with an empty cell and a cell of text
    CsvFile("data.csv",
            Table(<<"<gen><dan><bao><fei>", "<zhou><ci>">>,
                  << <<IntC(20000), IntC(40000)>>, <<NaN, Str("w")>> >>)),
    \* zero.csv: a file of no bytes
    [name |-> "zero.csv", readable |-> FALSE, df |-> EmptyFrame],
    \* 2024年第12周.csv: 签单保费(万), 周次, 是否过户车
    CsvFile("2024<nian><di>12<zhou>.csv",
            Table(<<"<qian><dan><bao><fei>(<wan>)", "<zhou><ci>", "<shiB><fou><guo><hu><che>">>,
                  << <<IntC(7)>>, <<IntC(12)>>, <<IntC(1)>> >>)) >>

\* the readings of the clock: the year, the ISO week and the text
\* strftime('%Y-%m-%d %H:%M:%S') gives
Clock == {[year |-> 2026, week |-> 45, stamp |-> "2026-11-04 06:00:00"],
          [year |-> 2027, week |-> 1, stamp |-> "2027-01-05 09:30:00"]}

\* the orders in which a directory lists up to MaxFiles of the files
Listings ==
    UNION {{[i \in 1..m |-> CsvFiles[f[i]]] :
               f \in {g \in [1..m -> 1..Len(CsvFiles)] :
                         \A i, j \in 1..m : g[i] = g[j] => i = j}} : m \in 0..MaxFiles}

\* process_all_files of src/app_original.py is called on a fresh restructurer
InitBatch ==
    /\ pc = "loop"
    /\ arg \in {[files |-> l] : l \in Listings}
    /\ ret = NoResult
    /\ csv_files = arg.files
    /\ Fresh

\* process_all_files of the mock of src/api/index.py is called: its counters
\* processed_files and failed_files are 0, its list years_processed is empty
InitMock ==
    /\ pc = "mock_loop"
    /\ arg \in {[files |-> l] : l \in Listings}
    /\ ret = NoResult
    /\ csv_files = arg.files
    /\ processed_files = 0
    /\ failed_files = 0
    /\ years_processed = <<>>
    /\ output_dir = <<>>
    /\ error_log = <<>>
    /\ warning_log = <<>>
    /\ report = <<>>
    /\ error_report = <<>>

Init == InitBatch \/ InitMock

\* df_final.to_csv(output_file): a file of that name is replaced
to_csv(dir, filename, df) ==
    [name \in DOMAIN dir \cup {filename} |-> IF name = filename THEN df ELSE dir[name]]

\* one iteration of the loop over the files of csv_dir
ProcessFile ==
    /\ pc = "loop"
    /\ Len(csv_files) > 0
    /\ \E csv_file \in {Head(csv_files)} :
       \E outcome \in {process_file(csv_file, now) : now \in Clock} :
             /\ csv_files' = next_file(csv_files, outcome)
             /\ years_processed' = IF outcome.year_added
                                   THEN years_processed \cup {outcome.year}
                                   ELSE years_processed
             /\ warning_log' =
                    IF Len(outcome.quality_issues) > 0
                    \* 数据质量检查
                    THEN Append(warning_log,
                                [operation |-> "<shu><ju><zhi><liang><jian><cha>",
                                 file |-> csv_file.name, issues |-> outcome.quality_issues])
                    ELSE warning_log
             /\ IF outcome.ok
                THEN /\ output_dir' = to_csv(output_dir, outcome.output_filename, outcome.df_final)
                     /\ processed_files' = Append(processed_files,
                            [source_file |-> csv_file.name,
                             output_file |-> outcome.output_filename,
                             year |-> outcome.year,
                             week |-> outcome.week,
                             records_count |-> outcome.df_final.n,
                             quality_issues |-> outcome.quality_issues])
                     /\ UNCHANGED <<failed_files, error_log>>
                ELSE /\ error_log' = Append(error_log,
                            [operation |-> outcome.operation, error_type |-> outcome.error_type,
                             error_message |-> outcome.message, file |-> csv_file.name])
                     /\ failed_files' = Append(failed_files,
                            [file |-> csv_file.name, error |-> outcome.error])
                     /\ UNCHANGED <<output_dir, processed_files>>
    /\ UNCHANGED <<pc, arg, ret, report, error_report>>

\* the end of process_all_files: the two reports and the summary returned
FinishBatch ==
    /\ pc = "loop"
    /\ Len(csv_files) = 0
    /\ report' = _generate_processing_report(processed_files, failed_files, years_processed)
    /\ error_report' = save_error_report(error_log, warning_log)
    /\ ret' = [processing_summary |->
                  processing_summary(processed_files, failed_files, years_processed)]
    /\ pc' = "done"
    /\ UNCHANGED <<arg, csv_files, processed_files, failed_files, years_processed,
                   output_dir, error_log, warning_log>>

\* one iteration of the loop of the mock: the table is read, gets the column
\* processed_at and is written as processed_<name>; a file that cannot be
\* read is counted as failed
MockProcessFile ==
    /\ pc = "mock_loop"
    /\ Len(csv_files) > 0
    /\ \E csv_file \in {Head(csv_files)} :
          IF csv_file.readable
          THEN \E now \in Clock :
                  /\ output_dir' = to_csv(output_dir, "processed_" \o csv_file.name,
                                          SetCol(csv_file.df, "processed_at",
                                                 Broadcast(Str(now.stamp), csv_file.df.n)))
                  /\ processed_files' = processed_files + 1
                  /\ years_processed' = IF now.year \in Range(years_processed)
                                        THEN years_processed
                                        ELSE Append(years_processed, now.year)
                  /\ UNCHANGED failed_files
          ELSE /\ failed_files' = failed_files + 1
               /\ UNCHANGED <<output_dir, processed_files, years_processed>>
    /\ csv_files' = Tail(csv_files)
    /\ UNCHANGED <<pc, arg, ret, error_log, warning_log, report, error_report>>

\* the end of the mock's process_all_files: the report (but for its time
\* stamp and the name of the directory) and the summary returned
MockFinishBatch ==
    /\ pc = "mock_loop"
    /\ Len(csv_files) = 0
    /\ report' = [processing_summary |-> [successful |-> processed_files,
                                          failed |-> failed_files,
                                          years_processed |-> years_processed],
                  files_processed |-> processed_files]
    /\ ret' = [processing_summary |-> [successful |-> processed_files,
                                       failed |-> failed_files,
                                       years_processed |-> years_processed]]
    /\ pc' = "mock_done"
    /\ UNCHANGED <<arg, csv_files, processed_files, failed_files, years_processed,
                   output_dir, error_log, warning_log, error_report>>

Next == ProcessFile \/ FinishBatch \/ MockProcessFile \/ MockFinishBatch

Spec == Init /\ [][Next]_vars

----------------------------------------------------------------------------
(* Properties of process_all_files (checked under Spec)                    *)

\* the files the loop has dealt with so far
Handled == SubSeq(arg.files, 1, Len(arg.files) - Len(csv_files))

\* the number of entries a file has in the two lists
SuccessEntries(name) ==
    Cardinality({j \in 1..Len(processed_files) : processed_files[j].source_file = name})

FailureEntries(name) ==
    Cardinality({j \in 1..Len(failed_files) : failed_files[j].file = name})

IsEmptyTable(csv_file) == csv_file.readable /\ csv_file.df.n = 0

\* a file that is processed with success, whatever the clock reads
Succeeds(csv_file) == \A now \in Clock : process_file(csv_file, now).ok

\* C3: when process_all_files returns, a file whose table is empty has one
\* entry in failed_files, with the reason 文件为空, has no entry in
\* processed_files, and no table was written for it; the files before and
\* after it have their own entries. For three files of which the second is
\* empty and the others succeed, the summary is total_files 3, successful 2,
\* failed 1.
C3_EmptyTableFailsAlone ==
    pc = "done" =>
        /\ \A i \in 1..Len(arg.files) :
              IsEmptyTable(arg.files[i]) =>
                  /\ [file |-> arg.files[i].name, error |-> EmptyFileError] \in Range(failed_files)
                  /\ SuccessEntries(arg.files[i].name) = 0
                  /\ \A j \in 1..Len(arg.files) :
                        SuccessEntries(arg.files[j].name) + FailureEntries(arg.files[j].name) = 1
        /\ Cardinality(DOMAIN output_dir) <= Len(processed_files)
        /\ (/\ Len(arg.files) = 3
            /\ IsEmptyTable(arg.files[2])
            /\ Succeeds(arg.files[1])
            /\ Succeeds(arg.files[3])) =>
              /\ ret.processing_summary.total_files = 3
              /\ ret.processing_summary.successful = 2
              /\ ret.processing_summary.failed = 1
              /\ failed_files = <<[file |-> arg.files[2].name, error |-> EmptyFileError]>>
              /\ [j \in 1..2 |-> processed_files[j].source_file]
                    = <<arg.files[1].name, arg.files[3].name>>

\* three files, the second empty, the first and the third written as tables
C3_Witness ==
    /\ pc = "done"
    /\ Len(arg.files) = 3
    /\ IsEmptyTable(arg.files[2])
    /\ Len(processed_files) = 2
    /\ Cardinality(DOMAIN output_dir) = 2
    /\ Len(failed_files) = 1

----------------------------------------------------------------------------
(* Specification of uploads to a DataProcessor                             *)

\* the columns a workbook may have, in sheet order
UploadPool == <<
    "<bao><xian><qi><qiB>",                    \* 保险起期
    "<zhou><ci>",                              \* 周次
    "<shiB><fou><xin><neng><yuan><che>1",      \* 是否新能源车1
    "<san><ji><jiB><gou>",                     \* 三级机构
    "<gen><dan><bao><fei>(<wan>)",             \* 跟单保费(万)
    "<man><qiB><jing><bao><fei>(<wan>)",       \* 满期净保费(万)
    "<dan><jun><bao><fei>",                    \* 单均保费
    "<shang><ye><xian><zi><zhu><xi><shu>" >>   \* 商业险自主系数

\* row kind t gives column UploadPool[c] the cell UploadCells[c][t]
UploadCells == <<
    <<IntC(2024), IntC(2025), Str("2023-06-30"), IntC(45000), NaN>>,
    <<IntC(12), IntC(12), IntC(13), NaN, Str("x")>>,
    <<Str("<shiB>"), Str("<fou>"), Bool(TRUE), IntC(1), NaN>>,
    <<Str("A"), Str("B"), Str("A"), NaN, IntC(3)>>,
    <<IntC(10), Num(5, 2), Str("abc"), IntC(-1), NaN>>,
    <<IntC(9), IntC(2), NaN, IntC(0), Str("-")>>,
    <<IntC(3000), IntC(0), NaN, IntC(-4), Str("abc")>>,
    <<Num(9, 10), IntC(0), Str("x"), NaN, IntC(-1)>> >>

\* the names an upload may have: 2025年第07周车险数据.xlsx, report.xlsx,
\* 第115周.xlsx
UploadNames == {"2025<nian><di>07<zhou><che><xian><shu><ju>.xlsx", "report.xlsx",
                "<di>115<zhou>.xlsx"}

UploadRows == UNION {[1..m -> RowKinds] : m \in 0..MaxRows}

Uploads ==
    {[name |-> name, readable |-> TRUE, df |-> MkTable(UploadPool, UploadCells, idx, kinds)] :
        name \in UploadNames,
        idx \in {p \in Picks(Len(UploadPool), MaxCols) : Len(p) > 0},
        kinds \in UploadRows}
    \cup {[name |-> name, readable |-> FALSE, df |-> EmptyFrame] : name \in UploadNames}

NoUpload == [success |-> FALSE, message |-> "none", output_files |-> <<>>,
             field_count |-> 0, total_row_count |-> 0, years_processed |-> <<>>]

InitDP ==
    /\ pc = "upload"
    /\ arg \in Uploads
    /\ ret = NoUpload
    /\ csv_files = <<>>
    /\ Fresh

\* one call of process_excel_to_csv: the tables of the years are written to
\* the output folder
ProcessExcel ==
    /\ pc = "upload"
    /\ \E result \in {process_excel_to_csv(arg)} :
          /\ ret' = result
          /\ output_dir' = [name \in {result.output_files[i].filename :
                                        i \in 1..Len(result.output_files)} |->
                              (CHOOSE f \in Range(result.output_files) : f.filename = name).table]
    /\ pc' = "uploaded"
    /\ UNCHANGED <<arg, csv_files, processed_files, failed_files, years_processed,
                   error_log, warning_log, report, error_report>>

NextDP == ProcessExcel

SpecDP == InitDP /\ [][NextDP]_vars

----------------------------------------------------------------------------
(* Properties of DataProcessor (checked under SpecDP)                      *)

\* the filter dimensions whose column is renamed and then left as it is or
\* run through boolean_map
CarriedFields == Range(filtering_fields) \ {"policy_start_year"}

\* the value a cell of the source column has in the canonical field
Carried(field, cell) ==
    IF field \in {"is_new_energy_vehicle", "is_transferred_vehicle"} THEN boolean_map(cell)
    ELSE cell

\* C5: when the workbook has a column that field_mapping maps to a filter
\* dimension F (周次 to week_number, 三级机构 to third_level_organization),
\* every row of every table written carries for F the value of that column in
\* the row of the workbook it comes from (a boolean dimension: its value
\* through boolean_map); the week of the file name or the default 40 is not
\* put in its place.
C5_MappedColumnIsCarried ==
    (pc = "uploaded" /\ ret.success) =>
        \A c \in 1..Len(arg.df.cols) :
            Renamed(arg.df.cols[c]) \in CarriedFields =>
                \A name \in DOMAIN output_dir :
                    \A k \in 1..output_dir[name].n :
                        Col(output_dir[name], Renamed(arg.df.cols[c]))[k]
                            = Carried(Renamed(arg.df.cols[c]),
                                      arg.df.data[c][output_dir[name].index[k]])

\* <year>保单第<week>周变动成本明细表.csv, the week with a leading zero below 10
KeyName(year, week) ==
    ToString(year) \o "<bao><dan><di>" \o (IF week < 10 THEN "0" ELSE "") \o ToString(week)
        \o "<zhou><bian><dong><cheng><ben><ming><xiB><biao>.csv"

\* C13 (as claimed): every file written for an upload is named after the year
\* and the week of its rows, and an upload named 2025年第07周车险数据.xlsx
\* that has no column of the year (保险起期) and none of the week (周次) is
\* written as the one file 2025保单第07周变动成本明细表.csv.
C13_OutputNameOfKey ==
    (pc = "uploaded" /\ ret.success) =>
        /\ \A i \in 1..Len(ret.output_files) :
              \A k \in 1..ret.output_files[i].table.n :
                  ret.output_files[i].filename
                      = KeyName(Col(ret.output_files[i].table, "policy_start_year")[k].n,
                                Col(ret.output_files[i].table, "week_number")[k].n)
        /\ (/\ arg.name = "2025<nian><di>07<zhou><che><xian><shu><ju>.xlsx"
            /\ ~HasCol(arg.df, "<bao><xian><qi><qiB>")
            /\ ~HasCol(arg.df, "<zhou><ci>")) =>
              DOMAIN output_dir = {"2025<bao><dan><di>07<zhou><bian><dong><cheng><ben><ming><xiB><biao>.csv"}

----------------------------------------------------------------------------
(* Specification of extract_year_and_week alone                            *)

\* the columns a table given to extract_year_and_week may have
ExtractPool == <<"policy_start_year", "week_number", "signed_premium_yuan">>

\* the kinds of row: years and weeks, an empty cell, a cell of text
ExtractKinds == 1..4

ExtractCells == <<
    <<IntC(2025), IntC(2024), NaN, Str("2025-01-03")>>,
    <<IntC(12), IntC(7), Str("w"), NaN>>,
    <<IntC(100000), IntC(0), IntC(5), IntC(7)>> >>

\* the names of the source files
ExtractNames == {
    "2025<nian><di>07<zhou><che><xian><shu><ju>.xlsx",    \* 2025年第07周车险数据.xlsx
    "weekly.csv",
    "<di>115<zhou>.csv",                                   \* 第115周.csv
    "report_20230315.csv" }

\* tables of up to MaxRows + 1 rows: a value that is the most frequent one
\* without being the first or the least takes three rows
ExtractTables ==
    {MkTable(ExtractPool, ExtractCells, idx, kinds) :
        idx \in Picks(Len(ExtractPool), Len(ExtractPool)),
        kinds \in UNION {[1..m -> ExtractKinds] : m \in 0..(MaxRows + 1)}}

NoKey == [ok |-> FALSE, err |-> "none", year |-> 0, week |-> 0]

InitExtract ==
    /\ pc = "extract"
    /\ arg \in {[df |-> t, filename |-> name, now |-> now] :
                   t \in ExtractTables, name \in ExtractNames, now \in Clock}
    /\ ret = NoKey
    /\ csv_files = <<>>
    /\ Fresh

Extract ==
    /\ pc = "extract"
    /\ ret' = extract_year_and_week(arg.df, arg.filename, arg.now)
    /\ pc' = "extracted"
    /\ UNCHANGED <<arg, batch>>

NextExtract == Extract

SpecExtract == InitExtract /\ [][NextExtract]_vars

\* the numeric values of a column of the table, one per row that has one
NumericValues(df, field) ==
    IF ~HasCol(df, field) THEN <<>>
    ELSE LET series == Col(df, field)
             RECURSIVE numeric(_)
             numeric(i) == IF i > Len(series) THEN <<>>
                           ELSE (IF series[i].k = "num" THEN <<series[i]>> ELSE <<>>)
                                \o numeric(i + 1)
         IN  numeric(1)

\* v is a value that no other value of the sequence outnumbers
MostFrequent(v, values) ==
    /\ IntC(v) \in Range(values)
    /\ \A w \in Range(values) :
          Cardinality({i \in 1..Len(values) : values[i] = w})
              <= Cardinality({i \in 1..Len(values) : values[i] = IntC(v)})

\* the year and the week that the names of the source files show; 0: none
NameYear(filename) ==
    CASE filename = "2025<nian><di>07<zhou><che><xian><shu><ju>.xlsx" -> 2025
      [] filename = "report_20230315.csv" -> 2023
      [] OTHER -> 0

NameWeek(filename) ==
    CASE filename = "2025<nian><di>07<zhou><che><xian><shu><ju>.xlsx" -> 7
      [] filename = "<di>115<zhou>.csv" -> 115
      [] OTHER -> 0

\* C11: the year extract_year_and_week returns is a most frequent numeric
\* value of the column policy_start_year when the table has that column with
\* a numeric value in it, whatever the file name and the clock; otherwise it
\* is the first four digits in a row of the file name; otherwise it is the
\* year of the clock.
C11_YearPriority ==
    (pc = "extracted" /\ ret.ok) =>
        IF Len(NumericValues(arg.df, "policy_start_year")) > 0
        THEN MostFrequent(ret.year, NumericValues(arg.df, "policy_start_year"))
        ELSE IF NameYear(arg.filename) > 0
        THEN ret.year = NameYear(arg.filename)
        ELSE ret.year = arg.now.year

\* 2025 in two rows of three, 2024 in the first row, a file name that shows
\* 2023: the year is 2025
C11_Witness ==
    /\ pc = "extracted"
    /\ ret.ok
    /\ HasCol(arg.df, "policy_start_year")
    /\ Col(arg.df, "policy_start_year") = <<IntC(2024), IntC(2025), IntC(2025)>>
    /\ arg.filename = "report_20230315.csv"
    /\ ret.year = 2025

\* C12: the week extract_year_and_week returns is a most frequent numeric
\* value of the column week_number when the table has that column with a
\* numeric value in it, whatever the file name and the clock; otherwise it is
\* the number N of the first 第N周 of the file name; otherwise it is the ISO
\* week of the clock.
C12_WeekPriority ==
    (pc = "extracted" /\ ret.ok) =>
        IF Len(NumericValues(arg.df, "week_number")) > 0
        THEN MostFrequent(ret.week, NumericValues(arg.df, "week_number"))
        ELSE IF NameWeek(arg.filename) > 0
        THEN ret.week = NameWeek(arg.filename)
        ELSE ret.week = arg.now.week

\* a column week_number that holds no number and a file name with 第07周: the
\* week is 7, and the year is that of the file name
C12_Witness ==
    /\ pc = "extracted"
    /\ ret.ok
    /\ HasCol(arg.df, "week_number")
    /\ Col(arg.df, "week_number") = <<Str("w"), NaN>>
    /\ ~HasCol(arg.df, "policy_start_year")
    /\ arg.filename = "2025<nian><di>07<zhou><che><xian><shu><ju>.xlsx"
    /\ ret.week = 7
    /\ ret.year = 2025

----------------------------------------------------------------------------
(* Specification of validate_output_compliance and of the end of the try   *)
(* block of process_all_files, which calls it                              *)

Swap(cols, i, j) ==
    [k \in 1..Len(cols) |-> IF k = i THEN cols[j] ELSE IF k = j THEN cols[i] ELSE cols[k]]

Drop(cols, i) == SubSeq(cols, 1, i - 1) \o SubSeq(cols, i + 1, Len(cols))

Put(cols, i, name) == [cols EXCEPT ![i] = name]

\* the column lists of the tables given to the validator: the required fields
\* in their order, two of them swapped, one dropped, one replaced by a name
\* that is no field or by a field (which is then there twice), one name more
\* at the end, and the first m of them
ColumnLists ==
    {required_fields}
    \cup {Swap(required_fields, i, j) : i, j \in 1..Len(required_fields)}
    \cup {Drop(required_fields, i) : i \in 1..Len(required_fields)}
    \cup {Put(required_fields, i, name) :
             i \in 1..Len(required_fields),
             name \in {"field_26", "snapshot_date", "marginal_contribution_amount_yuan"}}
    \cup {Append(required_fields, name) : name \in {"field_26", "week_number"}}
    \cup {SubSeq(required_fields, 1, m) : m \in 0..Len(required_fields)}

\* a table of n rows with the given columns
ValidateTable(cols, n) ==
    [cols |-> cols, data |-> [i \in 1..Len(cols) |-> [r \in 1..n |-> IntC(r)]], n |-> n]

\* what stands at line 713 of process_all_files: df_final, the year and the
\* week of the file and the issues the quality check has found
ValidateInputs ==
    {[df |-> ValidateTable(cols, n), issues |-> issues,
      yw |-> [ok |-> TRUE, err |-> "", year |-> 2025, week |-> 7], name |-> "weekly.csv"] :
        cols \in ColumnLists,
        n \in 1..MaxRows,
        issues \in {<<>>, <<MissingFieldIssue("policy_start_year")>>}}

InitValidate ==
    /\ pc = "final"
    /\ arg \in ValidateInputs
    /\ ret = NoResult
    /\ csv_files = <<>>
    /\ Fresh

\* validate_output_compliance on the table: (is_compliant, issues)
Validate ==
    /\ pc = "final"
    /\ \E issues \in {validate_output_compliance(arg.df)} :
          ret' = [is_compliant |-> Len(issues) = 0, issues |-> issues]
    /\ pc' = "validated"
    /\ UNCHANGED <<arg, batch>>

\* lines 713-731 of process_all_files on df_final, and the except clause
\* should one of them raise
Emit ==
    /\ pc = "final"
    /\ \E outcome \in {after_finalization(arg.issues, arg.yw,
                                          [ok |-> TRUE, err |-> "", df |-> arg.df])} :
          /\ ret' = outcome
          /\ IF outcome.ok
             THEN /\ output_dir' = to_csv(output_dir, outcome.output_filename, outcome.df_final)
                  /\ processed_files' = Append(processed_files,
                         [source_file |-> arg.name,
                          output_file |-> outcome.output_filename,
                          year |-> outcome.year,
                          week |-> outcome.week,
                          records_count |-> outcome.df_final.n,
                          quality_issues |-> outcome.quality_issues])
                  /\ UNCHANGED <<failed_files, error_log>>
             ELSE /\ error_log' = Append(error_log,
                         [operation |-> outcome.operation, error_type |-> outcome.error_type,
                          error_message |-> outcome.message, file |-> arg.name])
                  /\ failed_files' = Append(failed_files,
                         [file |-> arg.name, error |-> outcome.error])
                  /\ UNCHANGED <<output_dir, processed_files>>
    /\ pc' = "emitted"
    /\ UNCHANGED <<arg, csv_files, years_processed, warning_log, report, error_report>>

NextValidate == Validate \/ Emit

SpecValidate == InitValidate /\ [][NextValidate]_vars

\* C14: whatever the columns of df_final, compliant or not, lines 713-731
\* write the table under the name of its year and week and record the file
\* in processed_files, not in failed_files; the issues found before stay the
\* first quality_issues of the entry, and issues are added after them exactly
\* when the columns are not the required fields in their order.
C14_NonComplianceDoesNotBlock ==
    pc = "emitted" =>
        /\ failed_files = <<>>
        /\ error_log = <<>>
        /\ Len(processed_files) = 1
        /\ processed_files[1].source_file = arg.name
        /\ processed_files[1].records_count = arg.df.n
        /\ DOMAIN output_dir = {processed_files[1].output_file}
        /\ output_dir[processed_files[1].output_file] = arg.df
        /\ Len(processed_files[1].quality_issues) >= Len(arg.issues)
        /\ SubSeq(processed_files[1].quality_issues, 1, Len(arg.issues)) = arg.issues
        /\ (processed_files[1].quality_issues = arg.issues) <=> (arg.df.cols = required_fields)

\* a table whose first two fields are swapped is written and recorded, with
\* the two order issues
C14_Witness ==
    /\ pc = "emitted"
    /\ arg.df.cols = Swap(required_fields, 1, 2)
    /\ arg.issues = <<>>
    /\ Len(processed_files) = 1
    /\ Len(processed_files[1].quality_issues) = 2
    /\ processed_files[1].output_file \in DOMAIN output_dir

\* the issues of the validator that report a position
IsOrderIssue(issue) == Slice(issue, 1, 41) = "<zi><duan><shun><xu><cuo><wu>: <wei><zhi>"

\* the positions at which the table has a name that is not the expected one
WrongPositions(cols) ==
    {i \in 1..Len(required_fields) : i <= Len(cols) /\ cols[i] # required_fields[i]}

\* C15: validate_output_compliance returns is_compliant = true exactly when
\* the columns of the table are the 25 required fields in their order, and
\* then it returns no issue; for every other column list it returns
\* is_compliant = false and at least one issue, and among the issues one
\* order issue for each position at which the table has a name that is not
\* the expected one.
C15_CompliantIffCanonical ==
    pc = "validated" =>
        /\ ret.is_compliant <=> (arg.df.cols = required_fields)
        /\ ret.is_compliant <=> (ret.issues = <<>>)
        /\ Cardinality({k \in 1..Len(ret.issues) : IsOrderIssue(ret.issues[k])})
              = Cardinality(WrongPositions(arg.df.cols))
        /\ \A i \in WrongPositions(arg.df.cols) :
              \E k \in 1..Len(ret.issues) :
                  /\ IsOrderIssue(ret.issues[k])
                  /\ Contains(ret.issues[k], "<wei><zhi>" \o ToString(i) \o "<qiB><wang>'"
                                             \o required_fields[i] \o "', <shiC><ji>'"
                                             \o arg.df.cols[i] \o "'")

\* the first two fields swapped: 25 columns, none missing, none extra, and
\* two order issues
C15_Witness ==
    /\ pc = "validated"
    /\ arg.df.cols = Swap(required_fields, 1, 2)
    /\ ~ret.is_compliant
    /\ Len(ret.issues) = 2

----------------------------------------------------------------------------
(* Specification of the weeks of the metadata                              *)

\* the files an output directory may hold: tables of two years and four
\* weeks, a table whose name has no year, and a file of another kind
MetadataYears == {2024, 2025}
MetadataWeeks == {2, 4, 5, 9}

MetadataFiles ==
    {[name |-> output_filename(y, w), year |-> y, week |-> w] :
        y \in MetadataYears, w \in MetadataWeeks}
    \cup {[name |-> "<bao><dan><di>05<zhou><bian><dong><cheng><ben><ming><xiB><biao>.csv",
           year |-> 0, week |-> 5],
          [name |-> "processed_weekly.csv", year |-> 0, week |-> 0]}

\* the directories of up to MaxFiles + 1 files
MetadataDirs == {d \in SUBSET MetadataFiles : Cardinality(d) <= MaxFiles + 1}

InitMetadata ==
    /\ pc = "written"
    /\ arg \in {[files |-> d] : d \in MetadataDirs}
    /\ ret = NoResult
    /\ csv_files = <<>>
    /\ processed_files = <<>>
    /\ failed_files = <<>>
    /\ years_processed = {}
    /\ output_dir = [name \in {f.name : f \in arg.files} |-> EmptyFrame]
    /\ error_log = <<>>
    /\ warning_log = <<>>
    /\ report = <<>>
    /\ error_report = <<>>

\* DataStructureManager._generate_available_weeks writes available_weeks.json
GenerateAvailableWeeks ==
    /\ pc = "written"
    /\ report' = _generate_available_weeks(output_dir)
    /\ pc' = "metadata"
    /\ UNCHANGED <<arg, ret, csv_files, processed_files, failed_files, years_processed,
                   output_dir, error_log, warning_log, error_report>>

NextMetadata == GenerateAvailableWeeks

SpecMetadata == InitMetadata /\ [][NextMetadata]_vars

\* the weeks of the tables of a year in the directory
ObservedWeeks(year) == {f.week : f \in {g \in arg.files : g.year = year}}

\* C16: available_weeks.json has an entry for exactly the years of which the
\* directory holds a table, and for each of them the missing weeks and the
\* observed weeks are disjoint and together are all the weeks from the least
\* to the greatest observed one; the missing weeks are reported in
\* increasing order, each once.
C16_MissingWeeksWithinRange ==
    pc = "metadata" =>
        /\ DOMAIN report.year_week_mapping = {f.year : f \in arg.files} \ {0}
        /\ \A y \in DOMAIN report.year_week_mapping :
              LET entry == report.year_week_mapping[y]
                  missing == Range(entry.missing_weeks)
                  observed == ObservedWeeks(y)
              IN  /\ observed # {}
                  /\ Range(entry.available_weeks) = observed
                  /\ missing \cap observed = {}
                  /\ \A w \in missing : \E a, b \in observed : a < w /\ w < b
                  /\ \A w \in 1..52 :
                        (\E a, b \in observed : a <= w /\ w <= b) => w \in missing \cup observed
                  /\ \A i, j \in 1..Len(entry.missing_weeks) :
                        i < j => entry.missing_weeks[i] < entry.missing_weeks[j]

\* weeks 4, 5 and 9 of 2025 are there: 6, 7 and 8 are missing, and 2 and 3 are not
C16_Witness ==
    /\ pc = "metadata"
    /\ ObservedWeeks(2025) = {4, 5, 9}
    /\ report.year_week_mapping[2025].missing_weeks = <<6, 7, 8>>
    /\ report.year_week_mapping[2025].available_weeks = <<4, 5, 9>>

----------------------------------------------------------------------------
(* Specification of standardize_field_names alone                          *)

\* the raw columns a table may have, Chinese names and English ones
RawPool == <<
    "<zhou><ci>",                              \* 周次
    "week_number",
    "<shua><xin><shi><jian>",                  \* 刷新时间
    "snapshot_date",
    "<an><jianB><shu>",                        \* 案件数
    "<pei><an><jianB><shu>",                   \* 赔案件数
    "<jiB><gou>",                              \* 机构
    "<qu><dao>",                               \* 渠道
    "field_2",
    "<shiB><fou><xin><neng><yuan><che>1",      \* 是否新能源车1
    "is_new_energy_vehicle",
    "<bao><fei>" >>                            \* 保费

RawKinds == 1..2

RawCells == <<
    <<IntC(12), IntC(13)>>,
    <<IntC(7), NaN>>,
    <<Str("2025-01-01"), Str("2025-01-08")>>,
    <<Str("2025-02-01"), NaN>>,
    <<IntC(3), IntC(0)>>,
    <<IntC(4), IntC(1)>>,
    <<Str("A"), Str("B")>>,
    <<Str("C"), NaN>>,
    <<IntC(1), IntC(2)>>,
    <<Str("<shiB>"), Str("<fou>")>>,
    <<Bool(TRUE), Bool(FALSE)>>,
    <<IntC(100000), IntC(0)>> >>

\* tables of up to MaxCols raw columns, no two of the same name, in both orders
RawTables ==
    {MkTable(RawPool, RawCells, idx, kinds) :
        idx \in {p : p \in Picks(Len(RawPool), MaxCols)}
                \cup {Reverse(p) : p \in Picks(Len(RawPool), MaxCols)},
        kinds \in UNION {[1..m -> RawKinds] : m \in 1..MaxRows}}

InitStandardize ==
    /\ pc = "standardize"
    /\ arg \in {[df |-> t, filename |-> ""] : t \in RawTables}
    /\ ret = NoResult
    /\ csv_files = <<>>
    /\ Fresh

Standardize ==
    /\ pc = "standardize"
    /\ ret' = standardize_field_names(arg.df)
    /\ pc' = "standardized"
    /\ UNCHANGED <<arg, batch>>

NextStandardize == Standardize

SpecStandardize == InitStandardize /\ [][NextStandardize]_vars

CanonicalNames == {FIELD_MAPPING[i][2] : i \in 1..Len(FIELD_MAPPING)}

\* the canonical name a raw column resolves to: that of its synonym in
\* FIELD_MAPPING, or its own name
Resolve(name) ==
    IF \E i \in 1..Len(FIELD_MAPPING) : FIELD_MAPPING[i][1] = name
    THEN FIELD_MAPPING[CHOOSE i \in 1..Len(FIELD_MAPPING) : FIELD_MAPPING[i][1] = name][2]
    ELSE name

\* the columns before column i that resolve to the same name
Earlier(cols, i) == Cardinality({j \in 1..(i - 1) : Resolve(cols[j]) = Resolve(cols[i])})

\* C17 (as claimed): the table standardize_field_names returns for a table
\* of distinct raw names has as many columns, its names are pairwise
\* distinct, and of the columns that resolve to one canonical name the first
\* has that name and the k-th one after it the name with the suffix _k.
C17_DistinctAfterMapping ==
    (pc = "standardized" /\ ret.ok) =>
        /\ Len(ret.df.cols) = Len(arg.df.cols)
        /\ \A i, j \in 1..Len(ret.df.cols) : ret.df.cols[i] = ret.df.cols[j] => i = j
        /\ \A i \in 1..Len(arg.df.cols) :
              Resolve(arg.df.cols[i]) \in CanonicalNames =>
                  ret.df.cols[i] = IF Earlier(arg.df.cols, i) = 0
                                   THEN Resolve(arg.df.cols[i])
                                   ELSE Resolve(arg.df.cols[i]) \o "_"
                                            \o ToString(Earlier(arg.df.cols, i))

\* a name of ASCII characters only: none of its characters is a token
IsAscii(name) == ~Contains(name, "<")

\* C18 (as claimed): no column name of the table standardize_field_names
\* returns contains a character that is not ASCII, whatever the raw columns.
C18_AllAscii ==
    (pc = "standardized" /\ ret.ok) =>
        \A i \in 1..Len(ret.df.cols) : IsAscii(ret.df.cols[i])

----------------------------------------------------------------------------
(* Specification of two runs of process_all_files over one directory       *)

\* the directories of up to MaxFiles - 1 files
RerunListings == {l \in Listings : Len(l) <= MaxFiles - 1}

\* the first run, of src/app_original.py or of the mock of src/api/index.py
InitRerun ==
    /\ arg \in {[files |-> l, run |-> 1, first |-> <<>>] : l \in RerunListings}
    /\ ret = NoResult
    /\ csv_files = arg.files
    /\ output_dir = <<>>
    /\ error_log = <<>>
    /\ warning_log = <<>>
    /\ report = <<>>
    /\ error_report = <<>>
    /\ \/ /\ pc = "loop"
          /\ processed_files = <<>>
          /\ failed_files = <<>>
          /\ years_processed = {}
       \/ /\ pc = "mock_loop"
          /\ processed_files = 0
          /\ failed_files = 0
          /\ years_processed = <<>>

\* process_all_files of src/app_original.py is called a second time on the
\* same directory of files, on a new restructurer and with an output
\* directory that holds no file; what the first run wrote is kept in arg.first
RerunBatch ==
    /\ pc = "done"
    /\ arg.run = 1
    /\ arg' = [arg EXCEPT !.run = 2, !.first = output_dir]
    /\ pc' = "loop"
    /\ csv_files' = arg.files
    /\ processed_files' = <<>>
    /\ failed_files' = <<>>
    /\ years_processed' = {}
    /\ output_dir' = <<>>
    /\ UNCHANGED <<ret, error_log, warning_log, report, error_report>>

\* the same for the mock: its counters and its list are local variables
RerunMock ==
    /\ pc = "mock_done"
    /\ arg.run = 1
    /\ arg' = [arg EXCEPT !.run = 2, !.first = output_dir]
    /\ pc' = "mock_loop"
    /\ csv_files' = arg.files
    /\ processed_files' = 0
    /\ failed_files' = 0
    /\ years_processed' = <<>>
    /\ output_dir' = <<>>
    /\ UNCHANGED <<ret, error_log, warning_log, report, error_report>>

NextRerun ==
    \/ ProcessFile
    \/ FinishBatch
    \/ MockProcessFile
    \/ MockFinishBatch
    \/ RerunBatch
    \/ RerunMock

SpecRerun == InitRerun /\ [][NextRerun]_vars

\* the table of the file has a column of the year (保险起期) and a column of
\* the week (周次), each with a number in it
KeyColumnsPresent(csv_file) ==
    /\ csv_file.readable
    /\ HasCol(csv_file.df, "<bao><xian><qi><qiB>")
    /\ HasCol(csv_file.df, "<zhou><ci>")
    /\ \E r \in 1..csv_file.df.n : Col(csv_file.df, "<bao><xian><qi><qiB>")[r].k = "num"
    /\ \E r \in 1..csv_file.df.n : Col(csv_file.df, "<zhou><ci>")[r].k = "num"

\* C19 (as claimed): when the files of a directory all have their year and
\* week columns, the second run over the directory writes the files the
\* first run wrote, under the same names and with the same rows, whatever
\* the clock reads during the two runs.
C19_SameOutputOnRerun ==
    (/\ pc \in {"done", "mock_done"}
     /\ arg.run = 2
     /\ \A i \in 1..Len(arg.files) : KeyColumnsPresent(arg.files[i])) =>
        output_dir = arg.first

----------------------------------------------------------------------------
(* The order of the files of a directory (checked under Spec)              *)

\* the place of the name of a file among the names of CsvFiles sorted as
\* text: 2023dup.csv, 2024年第12周.csv, 2025年第07周.csv, data.csv,
\* dates.csv, empty.csv, weekly.csv, zero.csv
SourceRank(name) ==
    CASE name = "2023dup.csv" -> 1
      [] name = "2024<nian><di>12<zhou>.csv" -> 2
      [] name = "2025<nian><di>07<zhou>.csv" -> 3
      [] name = "data.csv" -> 4
      [] name = "dates.csv" -> 5
      [] name = "empty.csv" -> 6
      [] name = "weekly.csv" -> 7
      [] name = "zero.csv" -> 8

\* the file of the directory with that name
SourceFile(name) == CHOOSE f \in Range(arg.files) : f.name = name

\* C20 (as claimed): the report of a batch does not depend on the order in
\* which the directory lists its files. Its per-file entries, of successes
\* and of failures, stand in the order of the source names, and every file
\* recorded as processed has its table in the output directory under its
\* output name, whichever files were processed after it.
C20_ReportIndependentOfOrder ==
    pc = "done" =>
        /\ \A i, j \in 1..Len(report.processed_files) :
              i < j => SourceRank(report.processed_files[i].source_file)
                          < SourceRank(report.processed_files[j].source_file)
        /\ \A i, j \in 1..Len(report.failed_files) :
              i < j => SourceRank(report.failed_files[i].file)
                          < SourceRank(report.failed_files[j].file)
        /\ \A i \in 1..Len(report.processed_files) :
              /\ report.processed_files[i].output_file \in DOMAIN output_dir
              /\ \E now \in Clock :
                    output_dir[report.processed_files[i].output_file]
                        = process_file(SourceFile(report.processed_files[i].source_file),
                                       now).df_final

----------------------------------------------------------------------------
(* Cells and columns a table lacks (checked under Spec)                    *)

\* a table that has a row and no two columns that resolve to one name: all
\* that can be wrong with it is the content of its cells
WellFormed(csv_file) ==
    /\ csv_file.readable
    /\ csv_file.df.n > 0
    /\ \A i, j \in 1..Len(csv_file.df.cols) :
          Resolve(csv_file.df.cols[i]) = Resolve(csv_file.df.cols[j]) => i = j

\* C21 (as claimed): when process_all_files returns, every file whose table
\* has a row is recorded as processed and not as failed, whatever its cells
\* hold: numbers, empty cells, text, a date in the column 保险起期.
C21_BadCellNeverFails ==
    pc = "done" =>
        \A i \in 1..Len(arg.files) :
            WellFormed(arg.files[i]) =>
                /\ SuccessEntries(arg.files[i].name) = 1
                /\ FailureEntries(arg.files[i].name) = 0

\* the lists of candidate columns of the derived fields
CandidateLists ==
    {possible_source_fields.signed_premium, possible_source_fields.matured_premium,
     possible_source_fields.claim_payment, possible_source_fields.claim_count,
     possible_source_fields.policy_count_field, possible_source_fields.expense_ratio,
     possible_source_fields.commercial_coeff, possible_source_fields.variable_cost_ratio,
     possible_source_fields.average_premium}

\* C22 (as claimed): when process_all_files returns, a well-formed table
\* that has none of the candidate columns of a derived field is recorded as
\* processed, and the quality_issues of its entry hold an issue that names
\* one of the absent candidate columns.
C22_AbsentSourceIsRecorded ==
    pc = "done" =>
        \A i \in 1..Len(processed_files) :
            \A candidates \in CandidateLists :
                (\A c \in 1..Len(candidates) :
                    ~HasCol(SourceFile(processed_files[i].source_file).df, candidates[c])) =>
                        \E k \in 1..Len(processed_files[i].quality_issues) :
                            \E c \in 1..Len(candidates) :
                                Contains(processed_files[i].quality_issues[k], candidates[c])

----------------------------------------------------------------------------
(* process_all_files, one call of the loop body at a time                  *)

\* the table of the file at hand between two calls: the frame, the quality
\* issues, the key, and the stages the table has been through so far
NoTable == [file |-> "", df |-> EmptyFrame, issues |-> <<>>, year |-> 0, week |-> 0,
            stages |-> <<>>]

\* process_all_files is called on a fresh restructurer
InitStages ==
    /\ pc = "glob"
    /\ arg \in {[files |-> l] : l \in RerunListings}
    /\ ret = NoTable
    /\ csv_files = arg.files
    /\ Fresh

\* the except clause of the loop body: the error is logged, the file is
\* recorded as failed and the loop goes on with the next file
Except(err) ==
    /\ error_log' = Append(error_log,
           [operation |-> "<wen><jianB><chu><li>", error_type |-> err,
            error_message |-> err, file |-> Head(csv_files).name])
    /\ failed_files' = Append(failed_files,
           [file |-> Head(csv_files).name, error |-> FailureMessage(err)])
    /\ csv_files' = Tail(csv_files)
    /\ pc' = "glob"

\* pd.read_csv of the next file of the directory and the empty-file branch
ReadCsv ==
    /\ pc = "glob"
    /\ Len(csv_files) > 0
    /\ ret' = [NoTable EXCEPT !.file = Head(csv_files).name, !.df = Head(csv_files).df]
    /\ IF ~Head(csv_files).readable
       THEN Except("EmptyDataError")
       ELSE IF IsEmptyFrame(Head(csv_files).df)
       THEN /\ error_log' = Append(error_log,
                   [operation |-> "<wen><jianB><du><qu>", error_type |-> "str",
                    error_message |-> EmptyFileError, file |-> Head(csv_files).name])
            /\ failed_files' = Append(failed_files,
                   [file |-> Head(csv_files).name, error |-> EmptyFileError])
            /\ csv_files' = Tail(csv_files)
            /\ pc' = "glob"
       ELSE /\ pc' = "quality"
            /\ UNCHANGED <<csv_files, failed_files, error_log>>
    /\ UNCHANGED <<arg, processed_files, years_processed, output_dir, warning_log,
                   report, error_report>>

\* quality_issues = self.validate_data_quality(df) and the warning
ValidateDataQuality ==
    /\ pc = "quality"
    /\ \E quality \in {validate_data_quality(ret.df)} :
          IF ~quality.ok
          THEN /\ Except(quality.err)
               /\ UNCHANGED <<ret, warning_log>>
          ELSE /\ ret' = [ret EXCEPT !.issues = quality.issues]
               /\ warning_log' =
                      IF Len(quality.issues) > 0
                      THEN Append(warning_log,
                                  [operation |-> "<shu><ju><zhi><liang><jian><cha>",
                                   file |-> ret.file, issues |-> quality.issues])
                      ELSE warning_log
               /\ pc' = "calculate"
               /\ UNCHANGED <<csv_files, failed_files, error_log>>
    /\ UNCHANGED <<arg, processed_files, years_processed, output_dir, report, error_report>>

\* df_with_calculations = calculate_absolute_fields(df): the derivation
CalculateAbsoluteFields ==
    /\ pc = "calculate"
    /\ \E df_with_calculations \in {calculate_absolute_fields(ret.df)} :
          IF ~df_with_calculations.ok
          THEN /\ Except(df_with_calculations.err)
               /\ UNCHANGED ret
          ELSE /\ ret' = [ret EXCEPT !.df = df_with_calculations.df,
                                     !.stages = Append(@, "derivation")]
               /\ pc' = "standardize"
               /\ UNCHANGED <<csv_files, failed_files, error_log>>
    /\ UNCHANGED <<arg, processed_files, years_processed, output_dir, warning_log,
                   report, error_report>>

\* df_standardized = self.standardize_field_names(df_with_calculations): the
\* column mapping
StandardizeFieldNames ==
    /\ pc = "standardize"
    /\ \E standardized \in {standardize_field_names(ret.df)} :
          IF ~standardized.ok
          THEN /\ Except(standardized.err)
               /\ UNCHANGED ret
          ELSE /\ ret' = [ret EXCEPT !.df = standardized.df,
                                     !.stages = Append(@, "mapping")]
               /\ pc' = "extract"
               /\ UNCHANGED <<csv_files, failed_files, error_log>>
    /\ UNCHANGED <<arg, processed_files, years_processed, output_dir, warning_log,
                   report, error_report>>

\* year, week = self.extract_year_and_week(...), years_processed.add(year)
\* and the column week_number of a table that has none
ExtractYearAndWeek ==
    /\ pc = "extract"
    /\ \E yw \in {extract_year_and_week(ret.df, ret.file, now) : now \in Clock} :
          IF ~yw.ok
          THEN /\ Except(yw.err)
               /\ UNCHANGED <<ret, years_processed>>
          ELSE /\ years_processed' = years_processed \cup {yw.year}
               /\ ret' = [ret EXCEPT !.year = yw.year, !.week = yw.week,
                                     !.df = IF HasCol(ret.df, "week_number") THEN ret.df
                                            ELSE SetScalar(ret.df, "week_number", IntC(yw.week))]
               /\ pc' = "finalize"
               /\ UNCHANGED <<csv_files, failed_files, error_log>>
    /\ UNCHANGED <<arg, processed_files, output_dir, warning_log, report, error_report>>

\* df_final = self.finalize_output_fields(df_standardized): the finalization
FinalizeOutputFields ==
    /\ pc = "finalize"
    /\ \E final \in {finalize_output_fields(ret.df)} :
          IF ~final.ok
          THEN /\ Except(final.err)
               /\ UNCHANGED ret
          ELSE /\ ret' = [ret EXCEPT !.df = final.df,
                                     !.stages = Append(@, "finalization")]
               /\ pc' = "validate"
               /\ UNCHANGED <<csv_files, failed_files, error_log>>
    /\ UNCHANGED <<arg, processed_files, years_processed, output_dir, warning_log,
                   report, error_report>>

\* the rest of the try block: validate_output_compliance, whose issues extend
\* the list quality_issues (the list the warning holds as well), to_csv and
\* the entry of processed_files
ValidateOutputCompliance ==
    /\ pc = "validate"
    /\ \E quality_issues \in {ret.issues \o validate_output_compliance(ret.df)} :
          /\ ret' = [ret EXCEPT !.issues = quality_issues,
                                !.stages = Append(@, "validation")]
          /\ warning_log' =
                 IF Len(ret.issues) > 0
                 THEN [warning_log EXCEPT ![Len(warning_log)].issues = quality_issues]
                 ELSE warning_log
          /\ output_dir' = to_csv(output_dir, output_filename(ret.year, ret.week), ret.df)
          /\ processed_files' = Append(processed_files,
                 [source_file |-> ret.file,
                  output_file |-> output_filename(ret.year, ret.week),
                  year |-> ret.year,
                  week |-> ret.week,
                  records_count |-> ret.df.n,
                  quality_issues |-> quality_issues])
    /\ csv_files' = Tail(csv_files)
    /\ pc' = "glob"
    /\ UNCHANGED <<arg, failed_files, years_processed, error_log, report, error_report>>

\* the end of process_all_files: the two reports
FinishStages ==
    /\ pc = "glob"
    /\ Len(csv_files) = 0
    /\ report' = _generate_processing_report(processed_files, failed_files, years_processed)
    /\ error_report' = save_error_report(error_log, warning_log)
    /\ pc' = "done"
    /\ UNCHANGED <<arg, ret, csv_files, processed_files, failed_files, years_processed,
                   output_dir, error_log, warning_log>>

NextStages ==
    \/ ReadCsv
    \/ ValidateDataQuality
    \/ CalculateAbsoluteFields
    \/ StandardizeFieldNames
    \/ ExtractYearAndWeek
    \/ FinalizeOutputFields
    \/ ValidateOutputCompliance
    \/ FinishStages

SpecStages == InitStages /\ [][NextStages]_vars

\* the order of the stages the claim gives
ClaimedStages == <<"mapping", "derivation", "finalization", "validation">>

\* C23 (as claimed): the stages a table has been through are, at every
\* moment, the first ones of column mapping, derivation, finalization,
\* validation, in that order; and while a table is between two stages it is
\* the table of the file the loop is at, the files before it being done.
C23_StagesInClaimedOrder ==
    /\ Len(ret.stages) <= Len(ClaimedStages)
    /\ \A i \in 1..Len(ret.stages) : ret.stages[i] = ClaimedStages[i]
    /\ pc \in {"quality", "calculate", "standardize", "extract", "finalize", "validate"} =>
          /\ Len(csv_files) > 0
          /\ ret.file = Head(csv_files).name
          /\ Len(processed_files) + Len(failed_files) + Len(csv_files) = Len(arg.files)

----------------------------------------------------------------------------
(* The variable cost ratio (checked under SpecDerive)                      *)

\* C24 (as claimed): with a variable-cost-ratio column in the table, a row
\* whose ratio is a number has the marginal contribution matured premium x
\* (100 - ratio) / 100, the ratio taken x 100 exactly when the maximum of
\* the numbers of the column is <= 1: the empty and the non-numeric cells of
\* the other rows have no part in that decision.
C24_RescaleByNumericMaximum ==
    (pc = "derived" /\ ret.ok) =>
        LET var_cost_field == find_field(arg.df, possible_source_fields.variable_cost_ratio)
        IN  var_cost_field # None =>
                LET numbers == to_numeric(Col(arg.df, var_cost_field))
                    rescale == LessEq(SeriesMax(numbers), IntC(1))
                IN  \A r \in 1..arg.df.n :
                        ~IsNaN(numbers[r]) =>
                            Col(ret.df, "marginal_contribution_amount_yuan")[r]
                              = Mul(Col(ret.df, "matured_premium_yuan")[r],
                                    Mul(Sub(IntC(100),
                                            IF rescale THEN Mul(numbers[r], IntC(100))
                                            ELSE numbers[r]),
                                        Num(1, 100)))

----------------------------------------------------------------------------
(* The files a batch leaves behind (checked under Spec)                    *)

\* C25 (as claimed): when process_all_files returns, no two entries of
\* processed_files name one output file, and the file each entry names
\* holds as many rows as the entry records and is the table one of the
\* readings of the clock gives for the entry's source file.
C25_NoEmittedTableOverwritten ==
    pc = "done" =>
        /\ \A i, j \in 1..Len(processed_files) :
               processed_files[i].output_file = processed_files[j].output_file => i = j
        /\ \A i \in 1..Len(processed_files) :
               /\ processed_files[i].output_file \in DOMAIN output_dir
               /\ output_dir[processed_files[i].output_file].n = processed_files[i].records_count
               /\ \E now \in Clock :
                      output_dir[processed_files[i].output_file]
                        = process_file(SourceFile(processed_files[i].source_file), now).df_final


\* C26 (as claimed): when process_all_files returns, years_processed of the
\* report is strictly increasing, and its years are those of the entries of
\* processed_files: a file recorded as failed adds no year.
C26_YearsOfSuccessesOnly ==
    pc = "done" =>
        LET years == report.processing_summary.years_processed
        IN  /\ \A i, j \in 1..Len(years) : i < j => years[i] < years[j]
            /\ Range(years) = {processed_files[i].year : i \in 1..Len(processed_files)}

----------------------------------------------------------------------------
(* The error report after two batches (checked under SpecRerun)            *)

\* C27 (as claimed): when process_all_files returns, in the first batch of
\* the process or in a later one, total_errors of the error report it saved
\* is the number of files this batch recorded as failed, all_errors has one
\* entry for each of them, and there is at most one warning per file of the
\* batch.
C27_ErrorReportOfThisBatch ==
    pc = "done" =>
        /\ error_report.summary.total_errors = Len(failed_files)
        /\ Len(error_report.all_errors) = Len(failed_files)
        /\ \A k \in 1..Len(error_report.all_errors) :
               \E i \in 1..Len(failed_files) :
                   failed_files[i].file = error_report.all_errors[k].file
        /\ error_report.summary.total_warnings <= Len(arg.files)

----------------------------------------------------------------------------
(* The rows of an emitted table (checked under SpecStages)                 *)

\* the 17 filter dimensions among the 25 output fields
DimensionFields == {required_fields[i] : i \in 1..17}

\* the table of the file at hand has just been written
JustEmitted == Len(ret.stages) = 4

\* C28: a table that has just been written has as many rows as the table
\* read from its file, the file written holds it, records_count of its entry
\* is that number, and the rows are in the order they were read: a column of
\* the input that is a filter dimension holds, row by row, the cells that
\* were read (the two boolean dimensions their standardized value).
C28_RowsPreserved ==
    JustEmitted =>
        LET source == SourceFile(ret.file).df
            entry == processed_files[Len(processed_files)]
        IN  /\ entry.source_file = ret.file
            /\ ret.df.n = source.n
            /\ entry.records_count = source.n
            /\ output_dir[entry.output_file] = ret.df
            /\ \A c \in 1..Len(ret.df.cols) : Len(ret.df.data[c]) = source.n
            /\ \A i \in 1..Len(source.cols) :
                   Resolve(source.cols[i]) \in DimensionFields =>
                       \A r \in 1..source.n :
                           Col(ret.df, Resolve(source.cols[i]))[r]
                             = IF Resolve(source.cols[i]) \in BooleanFields
                               THEN standardize_boolean_value(source.data[i][r])
                               ELSE source.data[i][r]

\* weekly.csv, which has 4 columns and lacks 15 of the 17 dimensions, has
\* been written: two rows, 三级机构 A then B
C28_Witness ==
    /\ JustEmitted
    /\ ret.file = "weekly.csv"
    /\ ret.df.n = 2
    /\ Len(ret.df.cols) = 25
    /\ Col(ret.df, "third_level_organization") = <<Str("A"), Str("B")>>
    /\ processed_files[Len(processed_files)].records_count = 2

----------------------------------------------------------------------------
(* The files of the years of an upload (checked under SpecDP)              *)

\* the places (file, row of the file) where row r of the workbook is written
PlacesOfRow(r) ==
    {<<i, k>> \in (1..Len(ret.output_files)) \X (1..arg.df.n) :
        /\ k <= ret.output_files[i].table.n
        /\ ret.output_files[i].table.index[k] = r}

----------------------------------------------------------------------------
(* A batch followed by update_metadata on its output directory             *)

\* DataStructureManager.update_metadata: what the four metadata files say of
\* the tables of the directory, but for time stamps, sizes and constants:
\* the years of available_years.json, available_weeks.json, total_files of
\* data_catalog.json and main_data_files of metadata.json
update_metadata(dir) ==
    [available_years |-> Sorted(DOMAIN _extract_years_from_files(dir)),
     available_weeks |-> _generate_available_weeks(dir),
     total_files |-> Cardinality({name \in DOMAIN dir : IsOutputName(name)}),
     main_data_files |-> Cardinality({name \in DOMAIN dir : Contains(name, "<bao><dan>")})]

\* the files of the directory of a batch: three files of CsvFiles, and two
\* files whose column 保险起期 holds a year that is not of four digits
CatalogFiles == <<
    CHOOSE f \in Range(CsvFiles) : f.name = "weekly.csv",
    CHOOSE f \in Range(CsvFiles) : f.name = "2025<nian><di>07<zhou>.csv",
    CHOOSE f \in Range(CsvFiles) : f.name = "dates.csv",
    \* short.csv: 保险起期 = [24], 周次 = [3], 跟单保费
    CsvFile("short.csv",
            Table(<<"<bao><xian><qi><qiB>", "<zhou><ci>", "<gen><dan><bao><fei>">>,
                  << <<IntC(24)>>, <<IntC(3)>>, <<IntC(20000)>> >>)),
    \* long.csv: 保险起期 = [20245], 周次 = [3], 跟单保费
    CsvFile("long.csv",
            Table(<<"<bao><xian><qi><qiB>", "<zhou><ci>", "<gen><dan><bao><fei>">>,
                  << <<IntC(20245)>>, <<IntC(3)>>, <<IntC(30000)>> >>)) >>

\* the orders in which the directory lists up to MaxFiles of them
CatalogListings ==
    UNION {{[i \in 1..m |-> CatalogFiles[f[i]]] :
               f \in {g \in [1..m -> 1..Len(CatalogFiles)] :
                         \A i, j \in 1..m : g[i] = g[j] => i = j}} : m \in 0..MaxFiles}

\* process_all_files is called on a fresh restructurer and an empty output
\* directory
InitCatalog ==
    /\ pc = "loop"
    /\ arg \in {[files |-> l] : l \in CatalogListings}
    /\ ret = NoResult
    /\ csv_files = arg.files
    /\ Fresh

\* DataStructureManager(output_dir).update_metadata() after the batch
UpdateMetadata ==
    /\ pc = "done"
    /\ ret' = update_metadata(output_dir)
    /\ pc' = "metadata"
    /\ UNCHANGED <<arg, batch>>

NextCatalog == ProcessFile \/ FinishBatch \/ UpdateMetadata

SpecCatalog == InitCatalog /\ [][NextCatalog]_vars

\* the weeks of the entries of processed_files with that year
WeeksOfYear(year) ==
    {processed_files[i].week : i \in {j \in 1..Len(processed_files) :
                                         processed_files[j].year = year}}

\* C30 (as claimed): after the batch and update_metadata, available_weeks has
\* an entry for exactly the years of the entries of processed_files, and the
\* available_weeks of a year are the weeks of the entries of that year.
C30_WeekCoverageAgreesWithBatch ==
    pc = "metadata" =>
        /\ DOMAIN ret.available_weeks.year_week_mapping
              = {processed_files[i].year : i \in 1..Len(processed_files)}
        /\ \A y \in DOMAIN ret.available_weeks.year_week_mapping :
              Range(ret.available_weeks.year_week_mapping[y].available_weeks) = WeeksOfYear(y)

====
